---- MODULE Spec2Model ----
(***************************************************************************)
(* Agency directory acquisition and resolution pipeline of foiacreator.    *)
(*                                                                         *)
(* The directory file src/data/agency-emails.json is written by the        *)
(* scrapers, rewritten in place by merge-agency-data, and read by          *)
(* findAgencyEmail when a request is submitted.  The scrapers enumerate    *)
(* the units with the registry fetchers and extract one page per unit;     *)
(* GET /api/agencies serves the registry list from a cache in memory.      *)
(* Each part of the pipeline has its own group of variables and its own    *)
(* specification.                                                          *)
(***************************************************************************)
EXTENDS Integers, Sequences, FiniteSets, TLC

VARIABLES
    agencyEmails,   \* resolver: content of agency-emails.json as loaded
    query,          \* resolver: the (agencyId, agencyName) of the last call
    resolved,       \* resolver: outcome of the last findAgencyEmail call
    scraped,        \* merge: agency-emails.json as read at the start of main
    registry,       \* merge: the components the registry API serves
    apiData,        \* merge: the Map built by fetchAgencyData
    merged,         \* merge: the list written back to agency-emails.json
    mergePc,        \* merge: position of main ("idle", "start", "done")
    mergedAgain,    \* merge: a second execution of main: what it read and received, the list it writes
    remerged,       \* merge: the list a run of main writes from the file the first run wrote
    exPage,         \* extraction: the unit page as rendered (h1, mailto hrefs, text tokens)
    exRegistry,     \* extraction: the registry components of the later merge
    exRecord,       \* extraction: the record scrapeAgencyPage returned for the page
    exMerged,       \* extraction: the directory after scrape and merge
    exPc,           \* extraction: "idle", "page", "extracted", "merged"
    fetcher,        \* registry fetch: which fetcher runs
    fetchPc,        \* registry fetch: "idle", "loop", "returned", "threw"
    pageNum,        \* registry fetch: the page counter of the loop
    requests,       \* registry fetch: the requests issued, each with its response
    fetched,        \* registry fetch: the pages of records accumulated
    scraper,        \* scrape: which scraper runs ("parallel", "sequential")
    componentIds,   \* scrape: the ids enumerated for the run
    batchStart,     \* scrape: the loop index i over componentIds
    running,        \* scrape: positions of the scrapeAgencyPage calls in flight
    results,        \* scrape: the values the settled calls of the batch resolved to
    scrapedAgencies, \* scrape: the agencies list accumulated for the output file
    overtaken,      \* scrape: a call settled before a call of lower position did
    scrapePc,       \* scrape: "idle", "loop", "await", "done", "saved", "skipped", "crashed"
    dirFile,        \* scrape: the content of agency-emails.json
    writes,         \* scrape: the writeFileSync calls of the run
    tabs,           \* scrape: the index in pages of the page each call in flight works on
    clock,          \* list cache: Date.now(), in units of 12 hours
    cachedAgencies, \* list cache: the module-level cachedAgencies
    cacheTime,      \* list cache: the module-level cacheTime
    reqs,           \* list cache: the GET /api/agencies requests, each with its locals
    subDir,         \* submit: the directory loadAgencyEmails reads
    subEnv,         \* submit: the Mailjet settings of the environment
    subBody,        \* submit: the JSON body of the POST /api/submit request
    subPc,          \* submit: "idle", "start", "sending", "responded"
    subMail,        \* submit: the send in flight: its recipient, and how it settled
    outbox,         \* submit: the messages handed to Mailjet by the request
    subResponse,    \* submit: the response of the route
    subEscaped,     \* submit: an exception left the handler
    draft,          \* submit: the body of the mail draft the client composes
    fillBody,       \* portal: the JSON body of the POST /api/fill-portal request
    fillSite,       \* portal: how the browser and the portal page behave
    fillPc,         \* portal: "idle", "start", "responded"
    fillCalls,      \* portal: the safeFill and safeSelect calls made, in order
    filled,         \* portal: the fields of the form that took a value
    fillResponse,   \* portal: the response of the route
    taskScraper,    \* task: which scraper the unit is scraped by
    taskSite,       \* task: how the unit's page behaves at each operation
    taskPc,         \* task: the next operation of the unit's scrape
    taskTrace,      \* task: the page operations completed or attempted, in order
    taskResult,     \* task: what the scrape of the unit came to
    runScraper,     \* run: which scraper the run is of
    runFault,       \* run: the stage at which the run meets an exception, if any
    runPc,          \* run: the stage of the run
    runLeft,        \* run: the batches (or units) still to process
    browser,        \* run: "none", "open", "closed"
    runThrew,       \* run: an exception is on its way out of the try
    wizard,         \* wizard: the WizardState of Home
    editedRequest,  \* wizard: the request text as edited
    pending,        \* wizard: the rephrase requests awaiting their response
    saved,          \* wizard: the state stored under STORAGE_KEY
    mounted         \* wizard: the page is rendered (no render has thrown)

resolverVars == <<agencyEmails, query, resolved>>
mergeVars == <<scraped, registry, apiData, merged, mergePc, mergedAgain, remerged>>
extractVars == <<exPage, exRegistry, exRecord, exMerged, exPc>>
fetchVars == <<fetcher, fetchPc, pageNum, requests, fetched>>
scrapeVars ==
    <<scraper, componentIds, batchStart, running, results, scrapedAgencies,
      overtaken, scrapePc, dirFile, writes, tabs>>
cacheVars == <<clock, cachedAgencies, cacheTime, reqs>>
submitVars ==
    <<subDir, subEnv, subBody, subPc, subMail, outbox, subResponse, subEscaped, draft>>
portalVars == <<fillBody, fillSite, fillPc, fillCalls, filled, fillResponse>>
taskVars == <<taskScraper, taskSite, taskPc, taskTrace, taskResult>>
runVars == <<runScraper, runFault, runPc, runLeft, browser, runThrew>>
wizardVars == <<wizard, editedRequest, pending, saved, mounted>>
lateVars == <<taskVars, runVars, wizardVars>>
vars ==
    <<resolverVars, mergeVars, extractVars, fetchVars, scrapeVars, cacheVars,
      submitVars, portalVars, lateVars>>

\* What each part of the pipeline leaves alone.
notResolverVars == <<mergeVars, extractVars, fetchVars, scrapeVars, cacheVars, submitVars, portalVars, lateVars>>
notMergeVars == <<resolverVars, extractVars, fetchVars, scrapeVars, cacheVars, submitVars, portalVars, lateVars>>
notExtractVars == <<resolverVars, mergeVars, fetchVars, scrapeVars, cacheVars, submitVars, portalVars, lateVars>>
notFetchVars == <<resolverVars, mergeVars, extractVars, scrapeVars, cacheVars, submitVars, portalVars, lateVars>>
notScrapeVars == <<resolverVars, mergeVars, extractVars, fetchVars, cacheVars, submitVars, portalVars, lateVars>>
notCacheVars == <<resolverVars, mergeVars, extractVars, fetchVars, scrapeVars, submitVars, portalVars, lateVars>>

notSubmitVars ==
    <<resolverVars, mergeVars, extractVars, fetchVars, scrapeVars, cacheVars, portalVars,
      lateVars>>
notPortalVars ==
    <<resolverVars, mergeVars, extractVars, fetchVars, scrapeVars, cacheVars, submitVars,
      lateVars>>
earlyVars ==
    <<resolverVars, mergeVars, extractVars, fetchVars, scrapeVars, cacheVars, submitVars,
      portalVars>>
notTaskVars == <<earlyVars, runVars, wizardVars>>
notRunVars == <<earlyVars, taskVars, wizardVars>>
notWizardVars == <<earlyVars, taskVars, runVars>>

\* The page extraction when it is not the part under study.
IdleExtract ==
    /\ exPage = <<>>
    /\ exRegistry = <<>>
    /\ exRecord = <<>>
    /\ exMerged = <<>>
    /\ exPc = "idle"

\* The registry fetchers when they are not the part under study.
IdleFetch ==
    /\ fetcher = "none"
    /\ fetchPc = "idle"
    /\ pageNum = 0
    /\ requests = <<>>
    /\ fetched = <<>>

\* The scrapers when they are not the part under study.
IdleScrape ==
    /\ scraper = "none"
    /\ componentIds = <<>>
    /\ batchStart = 0
    /\ running = {}
    /\ results = <<>>
    /\ scrapedAgencies = <<>>
    /\ overtaken = FALSE
    /\ scrapePc = "idle"
    /\ dirFile = <<>>
    /\ writes = 0
    /\ tabs = <<>>

\* The list route when it is not the part under study.
IdleCache ==
    /\ clock = 0
    /\ cachedAgencies = <<>>
    /\ cacheTime = 0
    /\ reqs = <<>>

\* The submit route when it is not the part under study.
IdleSubmit ==
    /\ subDir = <<>>
    /\ subEnv = <<>>
    /\ subBody = <<>>
    /\ subPc = "idle"
    /\ subMail = <<>>
    /\ outbox = <<>>
    /\ subResponse = <<>>
    /\ subEscaped = FALSE
    /\ draft = <<>>

\* The fill-portal route when it is not the part under study.
IdlePortal ==
    /\ fillBody = <<>>
    /\ fillSite = <<>>
    /\ fillPc = "idle"
    /\ fillCalls = <<>>
    /\ filled = <<>>
    /\ fillResponse = <<>>

\* The scrape of one unit when it is not the part under study.
IdleTask ==
    /\ taskScraper = "none"
    /\ taskSite = <<>>
    /\ taskPc = "idle"
    /\ taskTrace = <<>>
    /\ taskResult = <<>>

\* The browser of a run when it is not the part under study.
IdleRun ==
    /\ runScraper = "none"
    /\ runFault = "none"
    /\ runPc = "idle"
    /\ runLeft = 0
    /\ browser = "none"
    /\ runThrew = FALSE

\* The wizard when it is not the part under study.
IdleWizard ==
    /\ wizard = <<>>
    /\ editedRequest = ""
    /\ pending = <<>>
    /\ saved = <<>>
    /\ mounted = FALSE

\* The two request routes, the unit task, the browser and the wizard when
\* they are not the part under study.
IdleRoutes == IdleSubmit /\ IdlePortal /\ IdleTask /\ IdleRun /\ IdleWizard

\* The acquisition parts (extraction, fetchers, scrapers, list cache) when
\* they are not the part under study.
IdleAcquisition == IdleExtract /\ IdleFetch /\ IdleScrape /\ IdleCache

----------------------------------------------------------------------------
(* Strings.  A string is a sequence of one-character strings (names) or   *)
(* of short runs of characters (addresses), so that toLowerCase and        *)
(* includes are computed and not assumed.                                  *)

\* String.prototype.toLowerCase on one character or one run of characters.
LowerChar(c) ==
    CASE c = "D" -> "d"
      [] c = "National." -> "national."
      [] c = "FOIA" -> "foia"
      [] c = "Portal" -> "portal"
      [] c = "Request" -> "request"
      [] c = "O" -> "o"
      [] c = "E" -> "e"
      [] c = "I" -> "i"
      [] c = "G" -> "g"
      [] c = "F" -> "f"
      [] c = "B" -> "b"
      [] OTHER -> c

\* String.prototype.toLowerCase.
toLowerCase(s) == [i \in 1..Len(s) |-> LowerChar(s[i])]

\* String.prototype.includes: sub occurs in s as a contiguous run.  The
\* empty string is included in every string.
includes(s, sub) ==
    \E i \in 0..(Len(s) - Len(sub)) :
        \A j \in 1..Len(sub) : s[i + j] = sub[j]

\* Array.prototype.find, as the index of the first element whose callback
\* result is true (0 when there is none).  hits[i] is the callback's result
\* on element i.
FindIndex(hits) ==
    IF \E i \in 1..Len(hits) : hits[i]
    THEN CHOOSE i \in 1..Len(hits) :
            /\ hits[i]
            /\ \A j \in 1..(i - 1) : ~hits[j]
    ELSE 0

----------------------------------------------------------------------------
(* Resolver inputs.                                                        *)

MaxDir == 3

\* JavaScript undefined, for a query that carries no id or no name.
UndefinedId == "undefined"
UndefinedName == <<"#undefined">>

\* JavaScript null, the return value of findAgencyEmail on a miss.
Null == "null"

ComponentIds == {"a1", "a2"}
RecordNames == { <<>>, <<"D", "o", "E">>, <<"D", "o", "E", "I", "G">> }
Emails == {"", "foia@doe.gov", "ig@doe.gov"}

QueryIds == {"a1", "zz", UndefinedId}
QueryNames == { <<"d", "o", "e">>, <<"D", "O">>, <<"d", "o", "e", "i", "g">>,
                <<"f", "b", "i">>, UndefinedName }

\* One entry of agency-emails.json, with the fields findAgencyEmail reads.
DirRecords == [componentId : ComponentIds, name : RecordNames, email : Emails]

Directories == UNION { [1..n -> DirRecords] : n \in 0..MaxDir }

----------------------------------------------------------------------------
(* findAgencyEmail.                                                        *)

Returned(v) == [kind |-> "return", value |-> v]
Thrown == [kind |-> "throw", value |-> "TypeError"]
NotCalled == [kind |-> "none", value |-> Null]

\* The callback of the second find: a.name.toLowerCase() === agencyName.toLowerCase()
NameEquals(a, agencyName) == toLowerCase(a.name) = toLowerCase(agencyName)

\* The callback of the third find: containment in either direction.
NamePartial(a, agencyName) ==
    \/ includes(toLowerCase(a.name), toLowerCase(agencyName))
    \/ includes(toLowerCase(agencyName), toLowerCase(a.name))

\* findAgencyEmail with the name tier tried before the id tier.
findAgencyEmailNameFirst(agencies, agencyId, agencyName) ==
    LET ById(a) == a.componentId = agencyId
        ByName(a) == NameEquals(a, agencyName)
        Partial(a) == NamePartial(a, agencyName)
        byId == FindIndex([i \in 1..Len(agencies) |-> ById(agencies[i])])
    IN  IF agencies = <<>>
        THEN Returned(Null)
        ELSE IF agencyName = UndefinedName
        THEN Thrown
        ELSE LET byName == FindIndex([i \in 1..Len(agencies) |-> ByName(agencies[i])])
             IN  IF byName # 0 /\ agencies[byName].email # ""
                 THEN Returned(agencies[byName].email)
                 ELSE IF byId # 0 /\ agencies[byId].email # ""
                 THEN Returned(agencies[byId].email)
                 ELSE LET partialMatch == FindIndex([i \in 1..Len(agencies) |-> Partial(agencies[i])])
                      IN  IF partialMatch # 0 /\ agencies[partialMatch].email # ""
                          THEN Returned(agencies[partialMatch].email)
                          ELSE Returned(Null)

\* findAgencyEmail with a substring tier that looks for the first partial
\* match that has an address, instead of the first partial match.
findAgencyEmailPartialWithEmail(agencies, agencyId, agencyName) ==
    LET ById(a) == a.componentId = agencyId
        ByName(a) == NameEquals(a, agencyName)
        PartialWithEmail(a) == NamePartial(a, agencyName) /\ a.email # ""
        byId == FindIndex([i \in 1..Len(agencies) |-> ById(agencies[i])])
    IN  IF byId # 0 /\ agencies[byId].email # ""
        THEN Returned(agencies[byId].email)
        ELSE IF agencies = <<>>
        THEN Returned(Null)
        ELSE IF agencyName = UndefinedName
        THEN Thrown
        ELSE LET byName == FindIndex([i \in 1..Len(agencies) |-> ByName(agencies[i])])
             IN  IF byName # 0 /\ agencies[byName].email # ""
                 THEN Returned(agencies[byName].email)
                 ELSE LET partialMatch == FindIndex([i \in 1..Len(agencies) |-> PartialWithEmail(agencies[i])])
                      IN  IF partialMatch # 0
                          THEN Returned(agencies[partialMatch].email)
                          ELSE Returned(Null)

findAgencyEmail(agencies, agencyId, agencyName) ==
    LET ById(a) == a.componentId = agencyId
        ByName(a) == NameEquals(a, agencyName)
        Partial(a) == NamePartial(a, agencyName)
        byId == FindIndex([i \in 1..Len(agencies) |-> ById(agencies[i])])
    IN  IF byId # 0 /\ agencies[byId].email # ""
        THEN Returned(agencies[byId].email)
        ELSE IF agencies = <<>>
        THEN Returned(Null)          \* no callback is ever invoked
        ELSE IF agencyName = UndefinedName
        THEN Thrown                  \* agencyName.toLowerCase() on undefined
        ELSE LET byName == FindIndex([i \in 1..Len(agencies) |-> ByName(agencies[i])])
             IN  IF byName # 0 /\ agencies[byName].email # ""
                 THEN Returned(agencies[byName].email)
                 ELSE LET partialMatch == FindIndex([i \in 1..Len(agencies) |-> Partial(agencies[i])])
                      IN  IF partialMatch # 0 /\ agencies[partialMatch].email # ""
                          THEN Returned(agencies[partialMatch].email)
                          ELSE Returned(Null)

\* The channel the caller takes from the outcome: an address means EMAIL,
\* null means PORTAL, an exception is neither.
Channel(res) ==
    IF res.kind = "throw" THEN "ERROR"
    ELSE IF res.value = Null THEN "PORTAL"
    ELSE "EMAIL"

----------------------------------------------------------------------------
(* Resolver specification: every directory up to MaxDir records, every     *)
(* query, one call at a time.                                              *)

NoQuery == [agencyId |-> UndefinedId, agencyName |-> UndefinedName]

\* The resolver when it is not the part under study.
IdleResolve ==
    /\ agencyEmails = <<>>
    /\ query = NoQuery
    /\ resolved = NotCalled

\* The merge script when it is not the part under study.
IdleMerge ==
    /\ scraped = <<>>
    /\ registry = <<>>
    /\ apiData = <<>>
    /\ merged = <<>>
    /\ mergePc = "idle"
    /\ mergedAgain = [ran |-> FALSE, course |-> "none", read |-> <<>>,
                      received |-> <<>>, out |-> <<>>]
    /\ remerged = [ran |-> FALSE, out |-> <<>>]

InitResolve ==
    /\ agencyEmails \in Directories
    /\ query = NoQuery
    /\ resolved = NotCalled
    /\ IdleMerge
    /\ IdleAcquisition
    /\ IdleRoutes

\* One call findAgencyEmail(agency.id, agency.name) against the loaded
\* directory.  The caller tests !agency only: an agency object with neither
\* id nor name is passed on as (undefined, undefined).
Resolve(id, name) ==
    /\ resolved = NotCalled
    /\ query' = [agencyId |-> id, agencyName |-> name]
    /\ resolved' = findAgencyEmail(agencyEmails, id, name)
    /\ UNCHANGED agencyEmails
    /\ UNCHANGED notResolverVars

\* The submit step on the record the review step had selected: allAgencies
\* hands over the record's componentId as agency.id and its name as
\* agency.name, and findAgencyEmail(agency.id, agency.name) decides the
\* channel of handleSubmit.
ResolveSelected(i) ==
    /\ resolved = NotCalled
    /\ i \in 1..Len(agencyEmails)
    /\ query' = [agencyId |-> agencyEmails[i].componentId,
                 agencyName |-> agencyEmails[i].name]
    /\ resolved' = findAgencyEmail(agencyEmails, agencyEmails[i].componentId,
                                   agencyEmails[i].name)
    /\ UNCHANGED agencyEmails
    /\ UNCHANGED notResolverVars

NextResolve ==
    \/ \E id \in QueryIds, name \in QueryNames : Resolve(id, name)
    \/ \E i \in 1..MaxDir : ResolveSelected(i)

SpecResolve == InitResolve /\ [][NextResolve]_vars

----------------------------------------------------------------------------
(* merge-agency-data: inputs.                                              *)
(*                                                                         *)
(* In this part a string is an atom: the merge only tests strings for      *)
(* emptiness and copies them.                                              *)

MaxUnits == 2

\* JavaScript undefined, for an attribute the registry response lacks.
Missing == "undefined"

\* A value that "||" passes over: undefined or the empty string.
Falsy(v) == v = Missing \/ v = ""

\* JavaScript a || b on strings.
Or(a, b) == IF Falsy(a) THEN b ELSE a

ScrapedIds == {"a1", "a2"}
RegistryIds == {"a1", "r9"}

\* The page URL the scrapers store as website.
PageUrl(componentId) ==
    CASE componentId = "a1" -> "https://www.foia.gov/request/agency-component/a1/"
      [] componentId = "a2" -> "https://www.foia.gov/request/agency-component/a2/"
      [] OTHER -> "https://www.foia.gov/request/agency-component/r9/"

\* What one page visit can yield: the placeholder of a failed visit, a page
\* with a heading only, a page with heading and address (parallel scraper),
\* and a page with heading, address and contact details (sequential scraper).
PageShapes == {"failed", "heading", "email", "full"}

\* The record a scraper stores for one unit.
scrapeAgencyPage(componentId, shape) ==
    [ name         |-> IF shape = "failed" THEN "" ELSE "Energy FOIA Office",
      abbreviation |-> "",
      parentAgency |-> "",
      email        |-> IF shape \in {"email", "full"} THEN "foia@doe.gov" ELSE "",
      website      |-> PageUrl(componentId),
      foiaOfficer  |-> IF shape = "full" THEN "J. Smith" ELSE "",
      address      |-> IF shape = "full" THEN "Washington, DC 20585" ELSE "",
      phone        |-> IF shape = "full" THEN "202-555-0100" ELSE "",
      componentId  |-> componentId ]

\* The files a scrape run can leave: one record per enumerated id, in
\* enumeration order.  The enumeration is not deduplicated.
ScrapedFiles ==
    UNION { { [i \in 1..n |-> scrapeAgencyPage(ids[i], shapes[i])] :
                ids \in [1..n -> ScrapedIds], shapes \in [1..n -> PageShapes] } :
            n \in 0..MaxUnits }

\* The parent agencies a registry page carries in "included".
Included == << [id |-> "doe", name |-> "Department of Energy"] >>

\* The attribute sets a registry component can carry: none at all; an empty
\* title with a website; a title with contact details and no website; all
\* attributes.
ComponentShapes == {"bare", "untitled", "titled", "complete"}

\* One element of data[] in a registry response.
RegistryComponent(id, shape) ==
    [ id            |-> id,
      title         |-> CASE shape = "bare" -> Missing
                          [] shape = "untitled" -> ""
                          [] OTHER -> "Office of Energy",
      abbreviation  |-> IF shape \in {"titled", "complete"} THEN "OE" ELSE Missing,
      agencyId      |-> IF shape \in {"titled", "complete"} THEN "doe" ELSE Missing,
      officerName   |-> IF shape \in {"titled", "complete"} THEN "A. Jones" ELSE Missing,
      officerPhone  |-> IF shape = "complete" THEN "202-555-0199" ELSE Missing,
      liaisonPhone  |-> IF shape \in {"titled", "complete"} THEN "202-555-0111" ELSE Missing,
      address       |-> IF shape \in {"titled", "complete"}
                        THEN "1000 Independence Ave SW" ELSE Missing,
      websiteUri    |-> IF shape \in {"untitled", "complete"}
                        THEN "https://www.energy.gov/foia" ELSE Missing,
      emails        |-> IF shape = "bare" THEN Missing ELSE "registry@doe.gov" ]

Registries ==
    UNION { { [i \in 1..n |-> RegistryComponent(ids[i], shapes[i])] :
                ids \in [1..n -> RegistryIds], shapes \in [1..n -> ComponentShapes] } :
            n \in 0..MaxUnits }

----------------------------------------------------------------------------
(* merge-agency-data: fetchAgencyData and main.                            *)

\* formatAddress: "" for an absent address, else the joined lines.
formatAddress(addr) ==
    IF addr = Missing THEN ""
    ELSE IF addr = "1000 Independence Ave SW"
    THEN "1000 Independence Ave SW, Washington, DC 20585"
    ELSE addr

\* included.find(inc => inc.id === agencyId)?.attributes?.name
ParentAgencyName(agencyId) ==
    IF \E i \in 1..Len(Included) : Included[i].id = agencyId
    THEN Included[CHOOSE i \in 1..Len(Included) : Included[i].id = agencyId].name
    ELSE Missing

\* The value stored by agencies.set(comp.id, {...}).
ApiEntry(comp) ==
    [ name         |-> Or(comp.title, "Unknown"),
      abbreviation |-> Or(comp.abbreviation, ""),
      parentAgency |-> Or(ParentAgencyName(comp.agencyId), ""),
      foiaOfficer  |-> Or(comp.officerName, ""),
      phone        |-> Or(comp.officerPhone, Or(comp.liaisonPhone, "")),
      address      |-> formatAddress(comp.address),
      website      |-> Or(comp.websiteUri, "") ]

\* The Map after every fetched component was set, in order: a later
\* component with the same id replaces an earlier one.
setAgencies(components) ==
    [ id \in { components[i].id : i \in 1..Len(components) } |->
        ApiEntry(components[
            CHOOSE i \in 1..Len(components) :
                /\ components[i].id = id
                /\ \A j \in (i + 1)..Len(components) : components[j].id # id ]) ]

\* MergedEntry taking the address from the registry entry, which has none.
MergedEntryRegistryEmail(entry, apiEntry) ==
    [ name         |-> Or(apiEntry.name, entry.name),
      abbreviation |-> Or(apiEntry.abbreviation, entry.abbreviation),
      parentAgency |-> Or(apiEntry.parentAgency, entry.parentAgency),
      email        |-> Missing,
      website      |-> Or(entry.website, Or(apiEntry.website, "")),
      foiaOfficer  |-> Or(apiEntry.foiaOfficer, entry.foiaOfficer),
      address      |-> Or(apiEntry.address, entry.address),
      phone        |-> Or(apiEntry.phone, entry.phone),
      componentId  |-> entry.componentId ]

\* The record pushed for a scraped entry that has a registry entry.
MergedEntry(entry, apiEntry) ==
    [ name         |-> Or(apiEntry.name, entry.name),
      abbreviation |-> Or(apiEntry.abbreviation, entry.abbreviation),
      parentAgency |-> Or(apiEntry.parentAgency, entry.parentAgency),
      email        |-> entry.email,
      website      |-> Or(entry.website, Or(apiEntry.website, "")),
      foiaOfficer  |-> Or(apiEntry.foiaOfficer, entry.foiaOfficer),
      address      |-> Or(apiEntry.address, entry.address),
      phone        |-> Or(apiEntry.phone, entry.phone),
      componentId  |-> entry.componentId ]

\* The loop of main without its else branch: a scraped entry with no
\* registry entry is not pushed.
MergeEntriesRegistryOnly(entries, api) ==
    LET Known(e) == e.componentId \in DOMAIN api
        kept == SelectSeq(entries, Known)
    IN  [ i \in 1..Len(kept) |-> MergedEntry(kept[i], api[kept[i].componentId]) ]

\* The loop of main with unshift in place of push: the records come out in
\* the reverse of the file's order.
MergeEntriesReversed(entries, api) ==
    [ i \in 1..Len(entries) |->
        LET e == entries[Len(entries) + 1 - i]
        IN  IF e.componentId \in DOMAIN api
            THEN MergedEntry(e, api[e.componentId])
            ELSE e ]

\* The loop of main: one pushed record per scraped entry, in order.
MergeEntries(entries, api) ==
    [ i \in 1..Len(entries) |->
        IF entries[i].componentId \in DOMAIN api
        THEN MergedEntry(entries[i], api[entries[i].componentId])
        ELSE entries[i] ]

\* ReviewStep's view of the directory: the emails list of each record.
allAgencies(dir) ==
    [ i \in 1..Len(dir) |->
        [ id     |-> dir[i].componentId,
          name   |-> dir[i].name,
          emails |-> IF Falsy(dir[i].email) THEN <<>> ELSE <<dir[i].email>> ] ]

\* No run on the written file yet.
NotRerun == [ran |-> FALSE, out |-> <<>>]

\* No second run on the same file yet.
NoSecondRun ==
    [ran |-> FALSE, course |-> "none", read |-> <<>>, received |-> <<>>, out |-> <<>>]

\* How the requests of one run of fetchAgencyData can go: every page is
\* served and the loop ends on the empty page; the first request throws;
\* the pages are served and the request after them throws.
FetchCourses == {"served", "firstThrows", "lastThrows"}

\* The components the registry has delivered to a run when its loop ends.
Received(components, course) ==
    IF course = "firstThrows" THEN <<>> ELSE components

\* fetchAgencyData with a catch that hands back no entry once a request
\* has thrown.
fetchAgencyDataEmptyOnError(components, course) ==
    IF course = "served" THEN setAgencies(components) ELSE setAgencies(<<>>)

\* fetchAgencyData: the Map of the components of the pages served; the
\* catch of a request that throws ends the loop and leaves the Map as it
\* is, and the Map is returned on either way out of the loop.
fetchAgencyData(components, course) ==
    IF course = "firstThrows" THEN setAgencies(<<>>) ELSE setAgencies(components)

InitMerge ==
    /\ scraped \in ScrapedFiles
    /\ registry \in Registries
    /\ apiData = <<>>
    /\ merged = <<>>
    /\ mergePc = "start"
    /\ mergedAgain = NoSecondRun
    /\ remerged = NotRerun
    /\ IdleResolve
    /\ IdleAcquisition
    /\ IdleRoutes

\* main of merge-agency-data: read the scraped file, fetch the registry,
\* merge, write the file.  registry is what the requests of this run were
\* served.
MergeMain ==
    /\ mergePc = "start"
    /\ apiData' = fetchAgencyData(registry, "served")
    /\ merged' = MergeEntries(scraped, apiData')
    /\ mergePc' = "done"
    /\ UNCHANGED <<scraped, registry, mergedAgain, remerged>>
    /\ UNCHANGED notMergeVars

\* A second execution of main, started on the scraped file as the first
\* run found it.  It reads the file and fetches the registry itself: its
\* requests go their own course, and it merges with the Map its own
\* fetchAgencyData returned.
MergeAgain ==
    /\ mergePc = "done"
    /\ ~mergedAgain.ran
    /\ \E course \in FetchCourses :
          LET file == scraped
              api == fetchAgencyData(registry, course)
          IN  mergedAgain' = [ ran      |-> TRUE,
                               course   |-> course,
                               read     |-> file,
                               received |-> Received(registry, course),
                               out      |-> MergeEntries(file, api) ]
    /\ UNCHANGED <<scraped, registry, apiData, merged, mergePc, remerged>>
    /\ UNCHANGED notMergeVars

\* main run on the file the first run wrote (scrapedPath is both the file
\* read and the file written), with the registry answering as before.
MergeMerged ==
    /\ mergePc = "done"
    /\ ~remerged.ran
    /\ remerged' = [ran |-> TRUE, out |-> MergeEntries(merged, fetchAgencyData(registry, "served"))]
    /\ UNCHANGED <<scraped, registry, apiData, merged, mergePc, mergedAgain>>
    /\ UNCHANGED notMergeVars

NextMerge == MergeMain \/ MergeAgain \/ MergeMerged

SpecMerge == InitMerge /\ [][NextMerge]_vars

----------------------------------------------------------------------------
(* Resolver claims (under SpecResolve).                                    *)

Called == resolved.kind # "none"

\* The three tiers of the documented matcher, on a record and the query.
IdMatches(a) == query.agencyId # UndefinedId /\ a.componentId = query.agencyId

ExactMatches(a) ==
    /\ query.agencyName # UndefinedName
    /\ toLowerCase(a.name) = toLowerCase(query.agencyName)

SubstringMatches(a) ==
    /\ query.agencyName # UndefinedName
    /\ \/ includes(toLowerCase(a.name), toLowerCase(query.agencyName))
       \/ includes(toLowerCase(query.agencyName), toLowerCase(a.name))

FirstIdMatch == FindIndex([i \in 1..Len(agencyEmails) |-> IdMatches(agencyEmails[i])])
FirstExactMatch == FindIndex([i \in 1..Len(agencyEmails) |-> ExactMatches(agencyEmails[i])])
FirstSubstringMatch == FindIndex([i \in 1..Len(agencyEmails) |-> SubstringMatches(agencyEmails[i])])

\* The record of the highest-priority tier that matches (0: no tier does).
TierMatch ==
    IF FirstIdMatch # 0 THEN FirstIdMatch
    ELSE IF FirstExactMatch # 0 THEN FirstExactMatch
    ELSE FirstSubstringMatch

\* The decision taken from record i alone.
DecisionOf(i) ==
    IF agencyEmails[i].email = "" THEN Returned(Null)
    ELSE Returned(agencyEmails[i].email)

\* A directory as the data model describes it: unique ids, every record
\* named.
WellFormedDirectory ==
    /\ \A i, j \in 1..Len(agencyEmails) :
          agencyEmails[i].componentId = agencyEmails[j].componentId => i = j
    /\ \A i \in 1..Len(agencyEmails) : agencyEmails[i].name # <<>>

\* C1 (as claimed, on a well-formed directory and for a query that carries
\* a name): when the record of the highest-priority matching tier has an
\* empty email, resolve returns PORTAL with no address; it does not fall
\* through to a lower tier and never returns another record's email.
C1_NoFallThrough ==
    (Called /\ WellFormedDirectory /\ query.agencyName # UndefinedName
        /\ TierMatch # 0 /\ agencyEmails[TierMatch].email = "")
    => resolved = Returned(Null)

\* C2: when the first record in stored order whose componentId equals the
\* query id has a non-empty email, resolve returns EMAIL with exactly that
\* email, whatever records match the query name and wherever they sit.
C2_IdMatchWithEmailWins ==
    (Called /\ FirstIdMatch # 0 /\ agencyEmails[FirstIdMatch].email # "")
    => /\ resolved = Returned(agencyEmails[FirstIdMatch].email)
       /\ Channel(resolved) = "EMAIL"

\* C2 witness: the id match sits after a record that matches the query name
\* exactly and carries a different address; the id match's address is returned.
C2_Witness ==
    /\ Called
    /\ FirstIdMatch > 1
    /\ agencyEmails[FirstIdMatch].email # ""
    /\ \E j \in 1..(FirstIdMatch - 1) :
          /\ ExactMatches(agencyEmails[j])
          /\ agencyEmails[j].email # ""
          /\ agencyEmails[j].email # agencyEmails[FirstIdMatch].email
    /\ resolved = Returned(agencyEmails[FirstIdMatch].email)

\* C3 (as claimed, on a well-formed directory): with no id match, exactly
\* one record whose name equals the query name case-insensitively and other
\* records matching by substring only, the decision is the exact-name
\* record's, whatever the stored order and whichever records have emails.
C3_ExactBeforeSubstring ==
    (/\ Called
     /\ WellFormedDirectory
     /\ FirstIdMatch = 0
     /\ Cardinality({ i \in 1..Len(agencyEmails) : ExactMatches(agencyEmails[i]) }) = 1
     /\ \E k \in 1..Len(agencyEmails) :
           SubstringMatches(agencyEmails[k]) /\ ~ExactMatches(agencyEmails[k]))
    => resolved = DecisionOf(FirstExactMatch)

\* The substring tier is reached: neither the id tier nor the exact-name
\* tier produced an address.
ReachesSubstringTier ==
    /\ Called
    /\ query.agencyName # UndefinedName
    /\ ~(FirstIdMatch # 0 /\ agencyEmails[FirstIdMatch].email # "")
    /\ ~(FirstExactMatch # 0 /\ agencyEmails[FirstExactMatch].email # "")

SubstringMatchCount ==
    Cardinality({ i \in 1..Len(agencyEmails) : SubstringMatches(agencyEmails[i]) })

\* C4: when resolution reaches the substring tier and several records match
\* by containment in either direction, the decision is that of the first
\* matching record in stored order alone: its address, or PORTAL if it has
\* none, never the address of a later match.
C4_FirstSubstringMatchDecides ==
    (ReachesSubstringTier /\ SubstringMatchCount >= 2)
    => resolved = DecisionOf(FirstSubstringMatch)

\* C4 witness: no id or exact-name match, two substring matches of which the
\* first has no address and a later one has; the outcome is PORTAL.
C4_Witness ==
    /\ ReachesSubstringTier
    /\ FirstIdMatch = 0
    /\ FirstExactMatch = 0
    /\ SubstringMatchCount >= 2
    /\ agencyEmails[FirstSubstringMatch].name # <<>>
    /\ agencyEmails[FirstSubstringMatch].email = ""
    /\ \E k \in (FirstSubstringMatch + 1)..Len(agencyEmails) :
          SubstringMatches(agencyEmails[k]) /\ agencyEmails[k].email # ""
    /\ Channel(resolved) = "PORTAL"

\* C5 (as claimed): on a non-empty directory, a query carrying an id or a
\* name that matches no record by id, exact name or substring completes
\* normally with PORTAL and no address, never with an exception.
C5_MissIsPortal ==
    (Called /\ agencyEmails # <<>> /\ TierMatch = 0
        /\ (query.agencyId # UndefinedId \/ query.agencyName # UndefinedName))
    => /\ resolved = Returned(Null)
       /\ Channel(resolved) = "PORTAL"

----------------------------------------------------------------------------
(* Merge claims (under SpecMerge).                                         *)

Merged == mergePc = "done"

HasRegistryRecord(componentId) ==
    \E j \in 1..Len(registry) : registry[j].id = componentId

\* The registry component fetchAgencyData keeps for an id: the last served.
RegistryRecord(componentId) ==
    registry[CHOOSE j \in 1..Len(registry) :
                /\ registry[j].id = componentId
                /\ \A k \in (j + 1)..Len(registry) : registry[k].id # componentId]

\* C6 (as claimed): the reconciled output holds exactly one record for each
\* componentId present in the scraped input, also when the enumeration
\* returned an id twice.
C6_ExactlyOnePerUnit ==
    Merged =>
        \A i \in 1..Len(scraped) :
            Cardinality({ k \in 1..Len(merged) :
                            merged[k].componentId = scraped[i].componentId }) = 1

\* C7: the output ids are exactly the scraped ids, in scraped order; a
\* registry-only unit never appears, and a scraped unit with no registry
\* record appears with its scraped fields unchanged.
C7_ScrapedDrivesOutput ==
    Merged =>
        /\ Len(merged) = Len(scraped)
        /\ \A i \in 1..Len(scraped) :
              /\ merged[i].componentId = scraped[i].componentId
              /\ ~HasRegistryRecord(scraped[i].componentId) => merged[i] = scraped[i]
        /\ \A j \in 1..Len(registry) :
              (\A i \in 1..Len(scraped) : scraped[i].componentId # registry[j].id)
              => \A k \in 1..Len(merged) : merged[k].componentId # registry[j].id

\* C7 witness: a merge whose registry holds a unit the scrape did not see,
\* and whose scraped file holds a unit with a registry record followed by a
\* successfully scraped unit without one.
C7_Witness ==
    /\ Merged
    /\ Len(scraped) >= 2
    /\ \E j \in 1..Len(registry) :
          \A i \in 1..Len(scraped) : scraped[i].componentId # registry[j].id
    /\ \E i \in 1..Len(scraped) : HasRegistryRecord(scraped[i].componentId)
    /\ \E i \in 1..Len(scraped) :
          /\ ~HasRegistryRecord(scraped[i].componentId)
          /\ scraped[i].email # ""
          /\ merged[i] = scraped[i]

\* C8 (as claimed): for a scraped unit with a registry record, the canonical
\* website is the registry website when that is non-empty, and the scraped
\* website only when the registry website is empty.
C8_RegistryWebsitePreferred ==
    Merged =>
        \A i \in 1..Len(scraped) :
            HasRegistryRecord(scraped[i].componentId) =>
                merged[i].website =
                    IF ~Falsy(RegistryRecord(scraped[i].componentId).websiteUri)
                    THEN RegistryRecord(scraped[i].componentId).websiteUri
                    ELSE scraped[i].website

\* C9 (as claimed, for a unit whose page yielded a display name): for a
\* scraped unit with a registry record, the canonical name is the registry
\* title when that is non-empty, and the scraped display name when the
\* title is missing or empty.
C9_ScrapedNameWhenNoTitle ==
    Merged =>
        \A i \in 1..Len(scraped) :
            (HasRegistryRecord(scraped[i].componentId) /\ scraped[i].name # "") =>
                merged[i].name =
                    IF ~Falsy(RegistryRecord(scraped[i].componentId).title)
                    THEN RegistryRecord(scraped[i].componentId).title
                    ELSE scraped[i].name

\* C10: for every scraped unit, with or without a registry record, the
\* canonical email is the scraped email whatever the registry holds; a unit
\* whose scraped email is empty has no email in the directory.
C10_ScrapedEmailKept ==
    Merged =>
        /\ Len(merged) = Len(scraped)
        /\ \A i \in 1..Len(scraped) :
              /\ merged[i].email = scraped[i].email
              /\ allAgencies(merged)[i].emails =
                    IF scraped[i].email = "" THEN <<>> ELSE <<scraped[i].email>>

\* C10 witness: a merge in which the registry lists an address for a unit
\* scraped without one, and a unit scraped with an address has a registry
\* record too; the first has no email, the second keeps its own.
C10_Witness ==
    /\ Merged
    /\ \E i \in 1..Len(scraped) :
          /\ HasRegistryRecord(scraped[i].componentId)
          /\ RegistryRecord(scraped[i].componentId).emails = "registry@doe.gov"
          /\ scraped[i].email = ""
          /\ allAgencies(merged)[i].emails = <<>>
    /\ \E i \in 1..Len(scraped) :
          /\ HasRegistryRecord(scraped[i].componentId)
          /\ scraped[i].email = "foia@doe.gov"
          /\ allAgencies(merged)[i].emails = <<"foia@doe.gov">>

----------------------------------------------------------------------------
(* Page extraction: the page.evaluate block of scrapeAgencyPage, the same  *)
(* in the parallel and in the sequential scraper.  An address is a         *)
(* sequence of runs of characters, cut so that every substring the code    *)
(* looks for is a run of its own.                                          *)

MaxLinks == 2
MaxTokens == 3

\* The local part the code excludes, as the code spells it.
SharedLocalPart == <<"National.", "FOIA", "Portal">>

\* The intake address every unit page of the portal shows.
SharedAddress == SharedLocalPart \o <<"@", "usdoj", ".gov">>

\* The href of a mailto link to addr.
Mailto(addr) == <<"mailto:">> \o addr

\* The mailto hrefs a page may hold: the shared address as the code spells
\* it and in lower case, two addresses of the unit (one with a subject), and
\* a link without an address.
Hrefs ==
    { Mailto(SharedAddress),
      Mailto(toLowerCase(SharedAddress)),
      Mailto(<<"ig", "@", "doe", ".gov">>) \o <<"?", "subject=records">>,
      Mailto(<<"info", "@", "doe", ".gov">>),
      Mailto(<<>>) }

\* The address-shaped tokens the page text may hold.
TextTokens ==
    { SharedAddress,
      <<"info", "@", "doe", ".gov">>,
      <<"FOIA", "-", "Request", "s", "@", "doe", ".gov">>,
      <<"records", ".", "request", "@", "army", ".mil">>,
      <<"foia", "@", "vendor", ".com">> }

\* The h1 of the page: none, or a heading with blanks around it.
Headings == {Missing, " Energy FOIA Office "}

Pages ==
    [ h1 : Headings,
      mailtos : UNION { [1..n -> Hrefs] : n \in 0..MaxLinks },
      text : UNION { [1..n -> TextTokens] : n \in 0..MaxTokens } ]

\* String.prototype.trim, under optional chaining: absent stays absent.
trim(s) ==
    CASE s = " Energy FOIA Office " -> "Energy FOIA Office"
      [] OTHER -> s

\* href.replace(pattern, ""): the first occurrence of the run is removed.
replace(s, pattern) ==
    LET i == FindIndex([k \in 1..Len(s) |-> s[k] = pattern])
    IN  IF i = 0 THEN s ELSE SubSeq(s, 1, i - 1) \o SubSeq(s, i + 1, Len(s))

\* s.split(separator)[0]: what precedes the first separator.
splitFirst(s, separator) ==
    LET i == FindIndex([k \in 1..Len(s) |-> s[k] = separator])
    IN  IF i = 0 THEN s ELSE SubSeq(s, 1, i - 1)

\* The test a mailto href has to pass: case-sensitive on the shared address.
HrefAccepted(href) ==
    /\ includes(href, <<"@">>)
    /\ ~includes(href, SharedLocalPart)

\* The loop over the mailto links: the address of the first accepted href,
\* "" when there is none.
mailtoEmail(emailLinks) ==
    LET i == FindIndex([k \in 1..Len(emailLinks) |-> HrefAccepted(emailLinks[k])])
    IN  IF i = 0 THEN <<>>
        ELSE splitFirst(replace(emailLinks[i], "mailto:"), "?")

\* /[\w.-]+@[\w.-]+\.(gov|mil|us)/i on one token: the match runs from the
\* start of the token to its last .gov, .mil or .us (in any case) that has a
\* domain label before it; <<>> when the token has no match.
PatternMatch(token) ==
    LET at == FindIndex([k \in 1..Len(token) |-> token[k] = "@"])
        ends == { k \in 1..Len(token) :
                    /\ k > at + 1
                    /\ LowerChar(token[k]) \in {".gov", ".mil", ".us"} }
    IN  IF at <= 1 \/ ends = {} THEN <<>>
        ELSE SubSeq(token, 1, CHOOSE k \in ends : \A j \in ends : j <= k)

\* pageText.match(...): the matches of the page text, in document order.
emailMatch(text) ==
    SelectSeq([k \in 1..Len(text) |-> PatternMatch(text[k])],
              LAMBDA m : m # <<>>)

\* emailMatch.filter(...): the matches outside the shared address, compared
\* in lower case.
textAgencyEmails(text) ==
    SelectSeq(emailMatch(text),
              LAMBDA e : ~includes(toLowerCase(e), toLowerCase(SharedLocalPart)))

\* agencyEmails.find(...) || agencyEmails[0], "" when nothing is left.
textEmail(text) ==
    LET candidates == textAgencyEmails(text)
        foiaEmail == FindIndex([k \in 1..Len(candidates) |->
                        \/ includes(toLowerCase(candidates[k]), <<"foia">>)
                        \/ includes(toLowerCase(candidates[k]), <<"request">>)])
    IN  IF candidates = <<>> THEN <<>>
        ELSE IF foiaEmail = 0 THEN candidates[1]
        ELSE candidates[foiaEmail]

\* The {name, email} page.evaluate returns.
evaluate(pg) ==
    [ name  |-> Or(trim(pg.h1), ""),
      email |-> IF mailtoEmail(pg.mailtos) # <<>>
                THEN mailtoEmail(pg.mailtos)
                ELSE textEmail(pg.text) ]

\* The record scrapeAgencyPage returns for a page that was extracted.
scrapedRecord(componentId, data) ==
    [ name          |-> data.name,
      abbreviation  |-> "",
      parentAgency  |-> "",
      email         |-> data.email,
      website       |-> PageUrl(componentId),
      foiaOfficer   |-> "",
      address       |-> "",
      phone         |-> "",
      componentId   |-> componentId ]

\* The registry of the later merge: without the unit, or with a full record.
ExtractRegistries == { <<>>, <<RegistryComponent("a1", "complete")>> }

InitExtract ==
    /\ exPage \in Pages
    /\ exRegistry \in ExtractRegistries
    /\ exRecord = <<>>
    /\ exMerged = <<>>
    /\ exPc = "page"
    /\ IdleResolve
    /\ IdleMerge
    /\ IdleFetch
    /\ IdleScrape
    /\ IdleCache
    /\ IdleRoutes

\* scrapeAgencyPage on unit a1, its page extracted without an exception.
ScrapePage ==
    /\ exPc = "page"
    /\ exRecord' = scrapedRecord("a1", evaluate(exPage))
    /\ exPc' = "extracted"
    /\ UNCHANGED <<exPage, exRegistry, exMerged>>
    /\ UNCHANGED notExtractVars

\* merge-agency-data main on the file holding that one record.
MergeScraped ==
    /\ exPc = "extracted"
    /\ exMerged' = MergeEntries(<<exRecord>>, setAgencies(exRegistry))
    /\ exPc' = "merged"
    /\ UNCHANGED <<exPage, exRegistry, exRecord>>
    /\ UNCHANGED notExtractVars

NextExtract ==
    \/ ScrapePage
    \/ MergeScraped

SpecExtract == InitExtract /\ [][NextExtract]_vars

----------------------------------------------------------------------------
(* Claims on the page extraction.                                          *)

\* An address that is the shared intake address, in any letter case.
IsSharedAddress(addr) == toLowerCase(addr) = toLowerCase(SharedAddress)

\* The addresses the mailto links of the page point to, in document order.
MailtoTargets ==
    [k \in 1..Len(exPage.mailtos) |->
        splitFirst(replace(exPage.mailtos[k], "mailto:"), "?")]

\* The mailto targets that are an address other than the shared one.
UnitMailtoTargets ==
    SelectSeq(MailtoTargets, LAMBDA t : t # <<>> /\ ~IsSharedAddress(t))

\* The .gov, .mil and .us tokens of the text other than the shared address.
UnitTextTokens ==
    SelectSeq(emailMatch(exPage.text), LAMBDA t : ~IsSharedAddress(t))

\* A token that names FOIA or requests, in any letter case.
NamesFoia(t) ==
    \/ includes(toLowerCase(t), <<"foia">>)
    \/ includes(toLowerCase(t), <<"request">>)

Scraped == exPc \in {"extracted", "merged"}

\* C11 (as claimed): after a scrape and a merge, no record of the directory
\* carries the shared intake address, in any letter case, whether the page
\* showed it as a mailto link or as text.
C11_NoSharedAddress ==
    exPc = "merged" =>
        \A i \in 1..Len(exMerged) : ~IsSharedAddress(exMerged[i].email)

\* C12 (as claimed): when the page has a mailto link to an address other
\* than the shared one, the scraped email is the first such address in
\* document order, whatever the text holds.
C12_FirstUnitMailtoWins ==
    (Scraped /\ UnitMailtoTargets # <<>>) =>
        exRecord.email = UnitMailtoTargets[1]

\* C13 (as claimed): when the page has no mailto link to an address other
\* than the shared one, the scraped email is the first text token naming
\* FOIA or requests, else the first text token, else empty; a record is
\* produced in each case.
C13_TextTokenSelection ==
    (Scraped /\ UnitMailtoTargets = <<>>) =>
        /\ exRecord.componentId = "a1"
        /\ exRecord.email =
              IF UnitTextTokens = <<>> THEN <<>>
              ELSE IF \E k \in 1..Len(UnitTextTokens) : NamesFoia(UnitTextTokens[k])
              THEN UnitTextTokens[
                      FindIndex([k \in 1..Len(UnitTextTokens) |->
                                    NamesFoia(UnitTextTokens[k])])]
              ELSE UnitTextTokens[1]

----------------------------------------------------------------------------
(* Registry fetchers: the pagination loops of fetchComponentIds (both      *)
(* scrapers), fetchAgencyData (merge-agency-data), fetchAllAgencies        *)
(* (fetch-agencies) and of the refresh in GET /api/agencies.  A page of    *)
(* records is known by its offset and its number of records.               *)

MaxFetches == 4
MaxFullFetches == 23
ShortPage == 30

\* The page size every fetcher asks for.
pageSize == 50

\* The page counter above which GET /api/agencies stops.
SafetyLimit == 20

Fetchers == {"fetchComponentIds", "fetchAgencyData", "fetchAllAgencies", "GET"}

\* What the registry may answer to one request: a page of n records, a
\* non-success status, or nothing (the transport fails).
OkPage(n) == [status |-> "ok", n |-> n]
NonSuccess == [status |-> "error", n |-> 0]
TransportFailure == [status |-> "failed", n |-> 0]
Responses == {OkPage(0), OkPage(ShortPage), OkPage(pageSize), NonSuccess, TransportFailure}

\* The request of the current iteration, with the answer it got.
Request(resp) == [offset |-> pageNum * pageSize, response |-> resp]

\* The records of a page pushed onto the accumulator.
Push(resp) == Append(fetched, [offset |-> pageNum * pageSize, n |-> resp.n])

\* The requests followed in a run: MaxFullFetches while every answer was a
\* full page, MaxFetches once another answer has come.
FetchBudget ==
    IF \A k \in 1..Len(requests) : requests[k].response = OkPage(pageSize)
    THEN MaxFullFetches
    ELSE MaxFetches

InitFetch ==
    /\ fetcher \in Fetchers
    /\ fetchPc = "loop"
    /\ pageNum = 0
    /\ requests = <<>>
    /\ fetched = <<>>
    /\ IdleResolve
    /\ IdleMerge
    /\ IdleExtract
    /\ IdleScrape
    /\ IdleCache
    /\ IdleRoutes

\* One iteration of fetchComponentIds: a failure of any kind and an empty
\* page end the loop; any other page is kept and the next one is asked for.
FetchComponentIdsPage(resp) ==
    /\ fetcher = "fetchComponentIds"
    /\ fetchPc = "loop"
    /\ Len(requests) < FetchBudget
    /\ requests' = Append(requests, Request(resp))
    /\ IF resp.status # "ok" \/ resp.n = 0
       THEN /\ fetchPc' = "returned"
            /\ UNCHANGED <<pageNum, fetched>>
       ELSE /\ fetched' = Push(resp)
            /\ pageNum' = pageNum + 1
            /\ fetchPc' = "loop"
    /\ UNCHANGED fetcher
    /\ UNCHANGED notFetchVars

\* One iteration of fetchAgencyData: the status is not looked at; the body
\* of a non-success answer holds no data or does not parse, and either ends
\* the loop, as a transport failure and an empty page do.
FetchAgencyDataPage(resp) ==
    /\ fetcher = "fetchAgencyData"
    /\ fetchPc = "loop"
    /\ Len(requests) < FetchBudget
    /\ requests' = Append(requests, Request(resp))
    /\ IF resp.status # "ok" \/ resp.n = 0
       THEN /\ fetchPc' = "returned"
            /\ UNCHANGED <<pageNum, fetched>>
       ELSE /\ fetched' = Push(resp)
            /\ pageNum' = pageNum + 1
            /\ fetchPc' = "loop"
    /\ UNCHANGED fetcher
    /\ UNCHANGED notFetchVars

\* One iteration of fetchAllAgencies: fetch is awaited outside any try, so a
\* transport failure leaves the function as an exception; a non-success
\* status and an empty page end the loop.
FetchAllAgenciesPage(resp) ==
    /\ fetcher = "fetchAllAgencies"
    /\ fetchPc = "loop"
    /\ Len(requests) < FetchBudget
    /\ requests' = Append(requests, Request(resp))
    /\ IF resp.status = "failed"
       THEN /\ fetchPc' = "threw"
            /\ UNCHANGED <<pageNum, fetched>>
       ELSE IF resp.status = "error" \/ resp.n = 0
       THEN /\ fetchPc' = "returned"
            /\ UNCHANGED <<pageNum, fetched>>
       ELSE /\ fetched' = Push(resp)
            /\ pageNum' = pageNum + 1
            /\ fetchPc' = "loop"
    /\ UNCHANGED fetcher
    /\ UNCHANGED notFetchVars

\* One iteration of the refresh loop of GET /api/agencies: a non-success
\* status and a transport failure throw to the handler's catch (status 500);
\* a page is concatenated, and a page below pageSize or a page counter above
\* the safety limit ends the loop.
GetAgenciesPage(resp) ==
    /\ fetcher = "GET"
    /\ fetchPc = "loop"
    /\ Len(requests) < FetchBudget
    /\ requests' = Append(requests, Request(resp))
    /\ IF resp.status # "ok"
       THEN /\ fetchPc' = "threw"
            /\ UNCHANGED <<pageNum, fetched>>
       ELSE /\ fetched' = IF resp.n = 0 THEN fetched ELSE Push(resp)
            /\ IF resp.n < pageSize
               THEN /\ fetchPc' = "returned"
                    /\ UNCHANGED pageNum
               ELSE /\ pageNum' = pageNum + 1
                    /\ fetchPc' = IF pageNum + 1 > SafetyLimit THEN "returned" ELSE "loop"
    /\ UNCHANGED fetcher
    /\ UNCHANGED notFetchVars

NextFetch ==
    \/ \E resp \in Responses : FetchComponentIdsPage(resp)
    \/ \E resp \in Responses : FetchAgencyDataPage(resp)
    \/ \E resp \in Responses : FetchAllAgenciesPage(resp)
    \/ \E resp \in Responses : GetAgenciesPage(resp)

SpecFetch == InitFetch /\ [][NextFetch]_vars

----------------------------------------------------------------------------
(* Claims on the registry fetchers.                                        *)

\* The pages of records the first k requests brought.
PagesOf(k) ==
    [i \in 1..k |-> [offset |-> requests[i].offset, n |-> requests[i].response.n]]

\* C14 (as claimed): a request answered by a non-empty page of fewer than
\* pageSize records is the last request of the fetch.
C14_ShortPageIsLast ==
    \A i \in 1..Len(requests) :
        ( /\ requests[i].response.status = "ok"
          /\ requests[i].response.n > 0
          /\ requests[i].response.n < pageSize ) => i = Len(requests)

\* C15 (as claimed): a request answered by a non-success status or failing
\* in transport, after k fetched pages, is the last request, and the fetcher
\* returns normally with exactly the records of those k pages.
C15_FailureReturnsFetchedPages ==
    \A i \in 1..Len(requests) :
        ( /\ requests[i].response.status \in {"error", "failed"}
          /\ \A j \in 1..(i - 1) :
                /\ requests[j].response.status = "ok"
                /\ requests[j].response.n > 0 ) =>
            /\ i = Len(requests)
            /\ fetchPc = "returned"
            /\ fetched = PagesOf(i - 1)

----------------------------------------------------------------------------
(* Scrapers: scrapeInParallel (scrape-foia-emails-fast) and the loop of    *)
(* scrapeAgencyEmails (scrape-foia-emails).  The ids of a run are its      *)
(* positions 1..n; a unit's page either extracts or fails (navigation      *)
(* timeout, exception in the extraction).                                  *)

MaxIds == 12

\* Number of concurrent tabs.
PARALLEL_TABS == 10

Scrapers == {"parallel", "sequential"}
Outcomes == {"ok", "failed"}

IdLists == { [i \in 1..n |-> i] : n \in 0..MaxIds }

\* The value a call that resolves to nothing would give.
NullResult == [componentId |-> 0, name |-> "null", email |-> "null"]

\* scrapeAgencyPage returning null for a page that failed.
TaskRecordNullOnFailure(componentId, outcome) ==
    IF outcome = "ok"
    THEN [componentId |-> componentId, name |-> "Energy FOIA Office", email |-> "foia@doe.gov"]
    ELSE NullResult

\* What scrapeAgencyPage resolves to: the extracted record, or from its
\* catch the record with the id and every other field empty.
TaskRecord(componentId, outcome) ==
    IF outcome = "ok"
    THEN [componentId |-> componentId, name |-> "Energy FOIA Office", email |-> "foia@doe.gov"]
    ELSE [componentId |-> componentId, name |-> "", email |-> ""]

\* componentIds.slice(i, i + PARALLEL_TABS), as positions.
BatchPositions(i) ==
    { p \in 1..Len(componentIds) : i < p /\ p <= i + PARALLEL_TABS }

\* Every call of a batch handed the first page.
PageIndexFirst(p, i) == 0

\* batch.map((id, idx) => scrapeAgencyPage(pages[idx], id)): the call for
\* position p of a batch that starts after position i gets pages[idx].
PageIndex(p, i) == p - i - 1

\* Promise.all taken as resolved whatever is still in flight.
BatchSettledEarly == TRUE

\* await Promise.all(...): every call of the batch has settled.
BatchSettled == running = {}

\* The results of the batch that pass `if (result)`, in batch order.
Pushed(i) ==
    LET settled == SelectSeq([k \in 1..PARALLEL_TABS |-> i + k],
                             LAMBDA p : p \in DOMAIN results)
        kept == SelectSeq(settled, LAMBDA p : results[p] # NullResult)
    IN  [k \in 1..Len(kept) |-> results[kept[k]]]

\* The directory file as an earlier run left it.
PreRunFile == <<[componentId |-> 0, name |-> "Previous Office", email |-> "old@agency.gov"]>>

\* A write that adds the list to what the file holds.
WriteFileSyncAppend(file, agencies) == file \o agencies

\* fs.writeFileSync(outputPath, JSON.stringify(agencies, null, 2)): the file
\* holds the list, whatever it held.
WriteFileSync(file, agencies) == agencies

InitScrape ==
    /\ scraper \in Scrapers
    /\ componentIds \in IdLists
    /\ batchStart = 0
    /\ running = {}
    /\ results = <<>>
    /\ scrapedAgencies = <<>>
    /\ overtaken = FALSE
    /\ scrapePc = "loop"
    /\ dirFile = PreRunFile
    /\ writes = 0
    /\ tabs = <<>>
    /\ IdleResolve
    /\ IdleMerge
    /\ IdleExtract
    /\ IdleFetch
    /\ IdleCache
    /\ IdleRoutes

\* scrapeInParallel, head of the loop: batch.map starts one scrapeAgencyPage
\* call per id of the batch, call idx on pages[idx].
StartBatch ==
    /\ scraper = "parallel"
    /\ scrapePc = "loop"
    /\ batchStart < Len(componentIds)
    /\ running' = running \cup BatchPositions(batchStart)
    /\ scrapePc' = "await"
    /\ tabs' = [p \in BatchPositions(batchStart) |-> PageIndex(p, batchStart)]
    /\ UNCHANGED <<scraper, componentIds, batchStart, results, scrapedAgencies, overtaken, dirFile, writes>>
    /\ UNCHANGED notScrapeVars

\* One scrapeAgencyPage call settles, in any order among the calls in
\* flight; Promise.all keeps its value at the position of the call.
TaskSettles(p, outcome) ==
    /\ scraper = "parallel"
    /\ p \in running
    /\ running' = running \ {p}
    /\ results' = results @@ (p :> TaskRecord(componentIds[p], outcome))
    /\ overtaken' = (overtaken \/ \E q \in running : q < p)
    /\ tabs' = [q \in (DOMAIN tabs) \ {p} |-> tabs[q]]
    /\ UNCHANGED <<scraper, componentIds, batchStart, scrapedAgencies, scrapePc, dirFile, writes>>
    /\ UNCHANGED notScrapeVars

\* scrapeInParallel, after the await: the results are pushed in batch order
\* and the loop index advances.
CollectBatch ==
    /\ scraper = "parallel"
    /\ scrapePc = "await"
    /\ BatchSettled
    /\ scrapedAgencies' = scrapedAgencies \o Pushed(batchStart)
    /\ results' = <<>>
    /\ batchStart' = batchStart + PARALLEL_TABS
    /\ scrapePc' = "loop"
    /\ UNCHANGED <<scraper, componentIds, running, overtaken, dirFile, writes, tabs>>
    /\ UNCHANGED notScrapeVars

\* scrapeAgencyEmails, one iteration: the record is pushed at the end of the
\* try; the catch of a failed unit logs the error and pushes nothing.
ScrapeUnit(outcome) ==
    /\ scraper = "sequential"
    /\ scrapePc = "loop"
    /\ batchStart < Len(componentIds)
    /\ scrapedAgencies' = IF outcome = "ok"
                   THEN Append(scrapedAgencies, TaskRecord(componentIds[batchStart + 1], outcome))
                   ELSE scrapedAgencies
    /\ batchStart' = batchStart + 1
    /\ UNCHANGED <<scraper, componentIds, running, results, overtaken, scrapePc, dirFile, writes, tabs>>
    /\ UNCHANGED notScrapeVars

\* The loop is over: the scraper returns its agencies list, which main writes out.
\* (main of the parallel scraper does not call it on an empty id list.)
ScrapeReturns ==
    /\ scrapePc = "loop"
    /\ batchStart >= Len(componentIds)
    /\ ~(scraper = "parallel" /\ Len(componentIds) = 0)
    /\ scrapePc' = "done"
    /\ UNCHANGED <<scraper, componentIds, batchStart, running, results, scrapedAgencies, overtaken, dirFile, writes, tabs>>
    /\ UNCHANGED notScrapeVars

\* main of the parallel scraper with no id enumerated: it logs and returns
\* before the scrape and before the write.
MainReturnsEarly ==
    /\ scraper = "parallel"
    /\ scrapePc = "loop"
    /\ Len(componentIds) = 0
    /\ scrapePc' = "skipped"
    /\ UNCHANGED <<scraper, componentIds, batchStart, running, results,
                   scrapedAgencies, overtaken, dirFile, writes, tabs>>
    /\ UNCHANGED notScrapeVars

\* main, after the scraper returned: the one write of the run.
WriteFile ==
    /\ scrapePc = "done"
    /\ dirFile' = WriteFileSync(dirFile, scrapedAgencies)
    /\ writes' = writes + 1
    /\ scrapePc' = "saved"
    /\ UNCHANGED <<scraper, componentIds, batchStart, running, results,
                   scrapedAgencies, overtaken, tabs>>
    /\ UNCHANGED notScrapeVars

\* The run ends before its write: the process is killed, or an exception
\* outside the per-unit catch (browser launch, a new page, closing) rejects
\* main, whose catch only logs.
Crash ==
    /\ scrapePc \in {"loop", "await", "done"}
    /\ scrapePc' = "crashed"
    /\ running' = {}
    /\ tabs' = <<>>
    /\ UNCHANGED <<scraper, componentIds, batchStart, results, scrapedAgencies,
                   overtaken, dirFile, writes>>
    /\ UNCHANGED notScrapeVars

NextScrape ==
    \/ MainReturnsEarly
    \/ WriteFile
    \/ Crash
    \/ StartBatch
    \/ \E p \in 1..MaxIds, outcome \in Outcomes : TaskSettles(p, outcome)
    \/ CollectBatch
    \/ \E outcome \in Outcomes : ScrapeUnit(outcome)
    \/ ScrapeReturns

SpecScrape == InitScrape /\ [][NextScrape]_vars

----------------------------------------------------------------------------
(* Claims on the scrapers.                                                 *)

\* A record with the id and no extracted field.
IsPlaceholder(rec) == rec.name = "" /\ rec.email = ""

\* The batch a position belongs to.
BatchOf(p) == (p - 1) \div PARALLEL_TABS

\* C16: whatever the order in which the calls of a batch settle and
\* whichever of them fail, scrapeInParallel returns one record per id, the
\* record at position i carrying the id at position i; between batches the
\* records so far are those of the ids so far.
C16_OneRecordPerIdInOrder ==
    scraper = "parallel" =>
        /\ scrapePc = "done" => Len(scrapedAgencies) = Len(componentIds)
        /\ scrapePc = "loop" =>
              \/ Len(scrapedAgencies) = batchStart
              \/ Len(scrapedAgencies) = Len(componentIds) /\ batchStart >= Len(componentIds)
        /\ \A i \in 1..Len(scrapedAgencies) : scrapedAgencies[i].componentId = componentIds[i]

\* C16 witness: a parallel run over more ids than tabs has returned, a call
\* settled before one of lower position, and the output holds both a
\* placeholder and an extracted record.
C16_Witness ==
    /\ scraper = "parallel"
    /\ scrapePc = "done"
    /\ Len(componentIds) > PARALLEL_TABS
    /\ overtaken
    /\ \E i \in 1..Len(scrapedAgencies) : IsPlaceholder(scrapedAgencies[i])
    /\ \E i \in 1..Len(scrapedAgencies) : ~IsPlaceholder(scrapedAgencies[i])

\* C17 (as claimed): in each scraper a unit that fails leaves a placeholder
\* and the run goes on, so a finished run holds as many records as ids.
C17_FailedUnitLeavesPlaceholder ==
    scrapePc = "done" => Len(scrapedAgencies) = Len(componentIds)

\* C18: at most PARALLEL_TABS calls are in flight, all of one batch, the one
\* the loop index is at; at the head of the loop, where the next batch
\* starts, nothing is in flight.
C18_OneBatchInFlight ==
    /\ Cardinality(running) <= PARALLEL_TABS
    /\ \A p, q \in running : BatchOf(p) = BatchOf(q)
    /\ \A p \in running : p \in BatchPositions(batchStart)
    /\ scrapePc = "loop" => running = {}

\* C18 witness: the second batch is in flight after a first batch of
\* PARALLEL_TABS calls was in flight together and has been collected.
C18_Witness ==
    /\ scraper = "parallel"
    /\ scrapePc = "await"
    /\ batchStart = PARALLEL_TABS
    /\ Len(scrapedAgencies) = PARALLEL_TABS
    /\ running # {}
    /\ \A p \in running : p > PARALLEL_TABS

----------------------------------------------------------------------------
(* The list cache of GET /api/agencies: the module-level cachedAgencies    *)
(* and cacheTime, and list requests (no id parameter) that may overlap:    *)
(* a request yields at each await of its refresh loop.  Time is counted    *)
(* in units of 12 hours.                                                   *)

MaxClock == 4
MaxRefreshPages == 1
MaxSoloPages == 22

\* 24 hours, in units of 12 hours.
CACHE_DURATION == 2

RequestIds == {1, 2, 3}

\* cachedAgencies before the first refresh.
NullCache == [set |-> FALSE, owner |-> 0, components |-> <<>>]

\* A request that has not arrived.
NoRequest ==
    [ pc |-> "idle", now |-> 0, page |-> 0, upstream |-> 0,
      allComponents |-> <<>>, before |-> {}, during |-> {}, status |-> 0 ]

\* What the registry may answer to a request of a refresh.
RefreshResponses == {OkPage(ShortPage), OkPage(pageSize), NonSuccess}

\* The test of line 47 with a refresh in flight taken as a fresh cache.
NeedsRefreshSingleFlight(now) ==
    /\ \/ ~cachedAgencies.set
       \/ now - cacheTime > CACHE_DURATION
    /\ \A r \in RequestIds : reqs[r].pc # "fetching"

\* !cachedAgencies || now - cacheTime > CACHE_DURATION
NeedsRefresh(now) ==
    \/ ~cachedAgencies.set
    \/ now - cacheTime > CACHE_DURATION

InitCache ==
    /\ clock = 0
    /\ cachedAgencies = NullCache
    /\ cacheTime = 0
    /\ reqs = [r \in RequestIds |-> NoRequest]
    /\ IdleResolve
    /\ IdleMerge
    /\ IdleExtract
    /\ IdleFetch
    /\ IdleScrape
    /\ IdleRoutes

\* Time passes.
Advance ==
    /\ clock < MaxClock
    /\ clock' = clock + 1
    /\ UNCHANGED <<cachedAgencies, cacheTime, reqs>>
    /\ UNCHANGED notCacheVars

\* A list request arrives and runs to its first await: it reads the clock
\* and either answers from the cache or enters the refresh loop.  before and
\* during record which requests had refreshed and which were refreshing.
Arrive(r) ==
    /\ reqs[r].pc = "idle"
    /\ \A q \in RequestIds : q < r => reqs[q].pc # "idle"
    /\ reqs' = [reqs EXCEPT ![r] =
          [ pc |-> IF NeedsRefresh(clock) THEN "fetching" ELSE "served",
            now |-> clock,
            page |-> 0,
            upstream |-> 0,
            allComponents |-> <<>>,
            before |-> { q \in RequestIds :
                            reqs[q].pc = "served" /\ reqs[q].upstream > 0 },
            during |-> { q \in RequestIds : reqs[q].pc = "fetching" },
            status |-> IF NeedsRefresh(clock) THEN 0 ELSE 200 ]]
    /\ UNCHANGED <<clock, cachedAgencies, cacheTime>>
    /\ UNCHANGED notCacheVars

\* The page request r got at its current offset: the components of the
\* response, told apart by the request that fetched them and the offset.
PageOf(r, resp) == [by |-> r, offset |-> reqs[r].page * pageSize, n |-> resp.n]

\* The cache with every fetched page stored at once.
CacheAfterPageEager(cache, r, all, last) ==
    [set |-> TRUE, owner |-> r, components |-> all]

\* cachedAgencies = allComponents, after the loop only.
CacheAfterPage(cache, r, all, last) ==
    IF last THEN [set |-> TRUE, owner |-> r, components |-> all] ELSE cache

\* The full pages followed for request r: MaxSoloPages while no other
\* request has arrived, MaxRefreshPages once requests overlap.
PageBudget(r) ==
    IF \A q \in RequestIds \ {r} : reqs[q].pc = "idle"
    THEN MaxSoloPages
    ELSE MaxRefreshPages

\* A loop with no test of the page counter.
PastSafetyLimitNever(page) == FALSE

\* if (page > 20) break
PastSafetyLimit(page) == page > SafetyLimit

\* One iteration of the refresh loop of request r, from its fetch to the
\* next await or to the response: a non-success page throws to the catch
\* (status 500); the last page stores the list and the request's own now.
RefreshPage(r, resp) ==
    /\ reqs[r].pc = "fetching"
    /\ resp.n = pageSize => reqs[r].page < PageBudget(r)
    /\ IF resp.status # "ok"
       THEN /\ reqs' = [reqs EXCEPT ![r].pc = "failed",
                                    ![r].upstream = @ + 1,
                                    ![r].status = 500]
            /\ UNCHANGED <<cachedAgencies, cacheTime>>
       ELSE LET all == Append(reqs[r].allComponents, PageOf(r, resp))
                last == resp.n < pageSize \/ PastSafetyLimit(reqs[r].page + 1)
            IN  /\ reqs' = [reqs EXCEPT ![r].pc = IF last THEN "served" ELSE "fetching",
                                        ![r].upstream = @ + 1,
                                        ![r].allComponents = all,
                                        ![r].page = IF resp.n < pageSize THEN @ ELSE @ + 1,
                                        ![r].status = IF last THEN 200 ELSE @]
                /\ cachedAgencies' = CacheAfterPage(cachedAgencies, r, all, last)
                /\ cacheTime' = IF last THEN reqs[r].now ELSE cacheTime
    /\ UNCHANGED clock
    /\ UNCHANGED notCacheVars

NextCache ==
    \/ Advance
    \/ \E r \in RequestIds : Arrive(r)
    \/ \E r \in RequestIds, resp \in RefreshResponses : RefreshPage(r, resp)

SpecCache == InitCache /\ [][NextCache]_vars

----------------------------------------------------------------------------
(* Claims on the list cache.                                               *)

\* Request r has answered after a refresh of its own.
Refreshed(r) == reqs[r].pc = "served" /\ reqs[r].upstream > 0

\* The pagination of request r ran to the end of its loop: to a page below
\* pageSize, or to the page that takes the counter past the safety limit.
CompletePagination(r) ==
    /\ reqs[r].upstream = Len(reqs[r].allComponents)
    /\ \/ reqs[r].allComponents[Len(reqs[r].allComponents)].n < pageSize
       \/ Len(reqs[r].allComponents) = SafetyLimit + 1

\* C19 (as claimed): a list request that arrives after a request a has
\* completed a refresh, and no more than 24 hours after a arrived, issues no
\* upstream request and is answered from the cache.
C19_FreshWindowServedFromCache ==
    \A r \in RequestIds : \A a \in reqs[r].before :
        (reqs[r].pc # "idle" /\ reqs[r].now - reqs[a].now <= CACHE_DURATION) =>
            /\ reqs[r].pc = "served"
            /\ reqs[r].upstream = 0

\* C20: a list request that arrives while the cache is empty or expired
\* enters its own refresh from page 0 whatever refreshes are in flight, and
\* a request answered after a refresh has run its whole pagination itself;
\* so two requests that overlap on an empty cache each paginate in full.
C20_NoSingleFlight ==
    [][ \A r \in RequestIds :
            /\ ( /\ reqs[r].pc = "idle"
                 /\ reqs'[r].pc # "idle"
                 /\ (~cachedAgencies.set \/ clock - cacheTime > CACHE_DURATION) ) =>
                    /\ reqs'[r].pc = "fetching"
                    /\ reqs'[r].page = 0
                    /\ reqs'[r].upstream = 0
            /\ ( /\ reqs[r].pc = "fetching"
                 /\ reqs'[r].pc = "served" ) =>
                    /\ reqs'[r].upstream = Len(reqs'[r].allComponents)
                    /\ reqs'[r].upstream >= 1
      ]_vars

\* C20 witness: two requests, the second arrived while the first was
\* refreshing, have both answered after a complete pagination of their own.
C20_Witness ==
    \E a, b \in RequestIds :
        /\ a # b
        /\ a \in reqs[b].during
        /\ Refreshed(a) /\ CompletePagination(a)
        /\ Refreshed(b) /\ CompletePagination(b)

----------------------------------------------------------------------------
(* Claims on the channel of a selected record and on unnamed records       *)
(* (under SpecResolve).                                                    *)

\* The query is the id and the name of record i, as the submit step gets
\* them for the record selected in the review step.
SelectedRecord(i) ==
    /\ query.agencyId = agencyEmails[i].componentId
    /\ query.agencyName = agencyEmails[i].name

\* What the review step shows for record i: "Portal only" unless the record
\* has an address of its own.
ReviewChannel(i) == IF agencyEmails[i].email = "" THEN "PORTAL" ELSE "EMAIL"

\* C28 (as claimed, on a well-formed directory): for the record selected in
\* the review step, the submit step mails the record's own address when it
\* has one and uses the portal when it has none, so both steps agree.
C28_SubmitFollowsOwnEmail ==
    \A i \in 1..Len(agencyEmails) :
        (Called /\ WellFormedDirectory /\ SelectedRecord(i)) =>
            /\ Channel(resolved) = ReviewChannel(i)
            /\ resolved = DecisionOf(i)

\* A record that matches the query name by containment and has a name.
NamedSubstringMatches(a) == a.name # <<>> /\ SubstringMatches(a)

FirstNamedSubstringMatch ==
    FindIndex([i \in 1..Len(agencyEmails) |-> NamedSubstringMatches(agencyEmails[i])])

\* C29 (as claimed): for a query with a non-empty name that reaches the
\* substring tier, a record without a name is not selected: the decision is
\* that of the first named record matching by containment, if there is one.
C29_UnnamedRecordNeverSelected ==
    (/\ ReachesSubstringTier
     /\ query.agencyName # <<>>
     /\ FirstIdMatch = 0
     /\ FirstExactMatch = 0
     /\ FirstNamedSubstringMatch # 0)
    => resolved = DecisionOf(FirstNamedSubstringMatch)

\* The pages are those of one refresh, in the order of their offsets from 0,
\* every page but the last a full one; the last is below pageSize, or is
\* the page at which the safety limit ended the loop.
OnePagination(pages) ==
    /\ Len(pages) > 0
    /\ \A k \in 1..Len(pages) :
          /\ pages[k].by = pages[1].by
          /\ pages[k].offset = (k - 1) * pageSize
          /\ k < Len(pages) => pages[k].n = pageSize
    /\ \/ pages[Len(pages)].n < pageSize
       \/ Len(pages) = SafetyLimit + 1

\* C30: in every state the cached set is absent or the whole list of one
\* request's completed pagination, and the step in which a refresh fails
\* leaves the cached set and its timestamp as they were and answers the
\* request with status 500.
C30_CacheIsOneCompletePagination ==
    /\ [](cachedAgencies.set =>
            /\ OnePagination(cachedAgencies.components)
            /\ cachedAgencies.owner \in RequestIds
            /\ Refreshed(cachedAgencies.owner)
            /\ CompletePagination(cachedAgencies.owner)
            /\ cachedAgencies.components = reqs[cachedAgencies.owner].allComponents)
    /\ [][ \A r \in RequestIds :
              (reqs[r].pc = "fetching" /\ reqs'[r].pc = "failed") =>
                  /\ cachedAgencies' = cachedAgencies
                  /\ cacheTime' = cacheTime
                  /\ reqs'[r].status = 500 ]_vars

\* A refresh has failed after its first page while the cache holds the two
\* pages of another request, and a third refresh is between its pages.
C30_Witness ==
    \E r, q, f \in RequestIds :
        /\ reqs[r].pc = "failed"
        /\ reqs[r].status = 500
        /\ Len(reqs[r].allComponents) = 1
        /\ cachedAgencies.set
        /\ cachedAgencies.owner = q
        /\ Len(cachedAgencies.components) = 2
        /\ reqs[f].pc = "fetching"
        /\ Len(reqs[f].allComponents) = 1

----------------------------------------------------------------------------
(* Determinism of the reconciliation (under SpecMerge).                    *)

\* The second run had the inputs of the first: it read the scraped file
\* the first read, and the registry delivered to it the components it
\* delivered to the first, in the same order.
SameInputs ==
    /\ mergedAgain.read = scraped
    /\ mergedAgain.received = registry

----------------------------------------------------------------------------
(* The directory file over a scrape run (under SpecScrape).                *)

RunInProgress == scrapePc \in {"loop", "await", "done"}

\* Until the write, and after a crash, the file is as the run found it.
FileUntouchedBeforeWrite ==
    (RunInProgress \/ scrapePc = "crashed") => (dirFile = PreRunFile /\ writes = 0)

\* The write came after the last batch and stored the whole list.
SavedWholeList ==
    scrapePc = "saved" =>
        /\ writes = 1
        /\ dirFile = scrapedAgencies
        /\ batchStart >= Len(componentIds)
        /\ running = {}
        /\ scraper = "parallel" => Len(dirFile) = Len(componentIds)

\* C23 (as claimed): the file is not modified while the run is in progress
\* and a crash leaves its pre-run content; a run that ends has overwritten
\* it exactly once, with the whole result list, after every batch.
C23_OverwrittenExactlyOnce ==
    /\ FileUntouchedBeforeWrite
    /\ SavedWholeList
    /\ scrapePc \in {"saved", "skipped"} => writes = 1

\* C23 (amended): as above, but the file is overwritten at most once: the
\* parallel run that enumerated no id ends without writing, and the file
\* keeps its pre-run content.
C23_OverwrittenAtMostOnce ==
    /\ FileUntouchedBeforeWrite
    /\ SavedWholeList
    /\ writes <= 1
    /\ scrapePc = "skipped" =>
          /\ scraper = "parallel"
          /\ Len(componentIds) = 0
          /\ writes = 0
          /\ dirFile = PreRunFile

\* A parallel run of two batches, with calls settling out of order and a
\* failed unit, has written its list over the earlier file.
C23_Witness ==
    /\ scrapePc = "saved"
    /\ scraper = "parallel"
    /\ Len(componentIds) > PARALLEL_TABS
    /\ overtaken
    /\ writes = 1
    /\ dirFile = scrapedAgencies
    /\ dirFile # PreRunFile
    /\ \E i \in 1..Len(dirFile) : IsPlaceholder(dirFile[i])

----------------------------------------------------------------------------
(* Submit route: POST /api/submit, and the mail draft of the client's      *)
(* SubmitStep.  A text is a sequence of parts; a part is a tuple of the    *)
(* literal and interpolated pieces of one line of the template.            *)

\* The directories the route may load.
SubmitDirectories ==
    { <<>>,
      << [componentId |-> "a1", name |-> <<"D", "o", "E">>, email |-> "foia@doe.gov"],
         [componentId |-> "a2", name |-> <<"D", "o", "E", "I", "G">>, email |-> ""] >> }

\* MAILJET_API_KEY, MAILJET_SECRET_KEY and MAILJET_FROM_EMAIL, set or not.
SubmitEnvs == [apiKey : BOOLEAN, secretKey : BOOLEAN, fromEmail : {"", "noreply@foia.example"}]

SubmitAgencies ==
    [present : {TRUE}, id : {"a1", "a2", UndefinedId},
     name : {<<"D", "o", "E">>, <<"f", "b", "i">>, UndefinedName}]
    \cup {[present |-> FALSE, id |-> UndefinedId, name |-> UndefinedName]}

WaiverReasons == {Missing, "", "Research for a public report."}

\* userDetails of the body: absent, or the requester's details; a body not
\* built by the client may lack the address object.
SubmitDetails ==
    [present : {TRUE}, email : {"ann@example.org"}, hasAddress : BOOLEAN,
     feeWaiverRequested : BOOLEAN, feeWaiverReason : WaiverReasons]
    \cup {[present |-> FALSE, email |-> "", hasAddress |-> FALSE,
           feeWaiverRequested |-> FALSE, feeWaiverReason |-> Missing]}

\* The request bodies: one that does not parse as JSON, and the parsed ones.
SubmitBodies ==
    [parsed : {TRUE}, rephrasedRequest : {"", "All records on contract 17."},
     agency : SubmitAgencies, userDetails : SubmitDetails]
    \cup {[parsed |-> FALSE, rephrasedRequest |-> "",
           agency |-> [present |-> FALSE, id |-> UndefinedId, name |-> UndefinedName],
           userDetails |-> [present |-> FALSE, email |-> "", hasAddress |-> FALSE,
                            feeWaiverRequested |-> FALSE, feeWaiverReason |-> Missing]]}

\* What the await of the Mailjet request settles to: fulfilled, rejected
\* with an Error, rejected with a value that is not an Error.
MailOutcomes ==
    { [ok |-> TRUE, isError |-> FALSE, message |-> ""],
      [ok |-> FALSE, isError |-> TRUE, message |-> "Unsuccessful: 401 Unauthorized"],
      [ok |-> FALSE, isError |-> FALSE, message |-> ""] }

\* The exceptions the handler can meet before the send.
JsonError == [isError |-> TRUE, message |-> "Unexpected end of JSON input"]
NameTypeError ==
    [isError |-> TRUE, message |-> "Cannot read properties of undefined (reading 'toLowerCase')"]
AddressTypeError ==
    [isError |-> TRUE, message |-> "Cannot read properties of undefined (reading 'line1')"]

\* getMailjetClient that builds a client whatever the environment holds.
getMailjetClientUnchecked(env) == TRUE

\* getMailjetClient: a client unless a key is missing (null).
getMailjetClient(env) == env.apiKey /\ env.secretKey

\* The fee-waiver lines with the justification left as the requester gave it.
WaiverBlockNoDefault(u) ==
    IF u.feeWaiverRequested
    THEN << <<"FEE WAIVER REQUEST:">>,
            <<"I am requesting a waiver of all fees associated with this request.">>,
            <<"Justification: ", u.feeWaiverReason>> >>
    ELSE << <<"">> >>

\* The interpolation of lines 319-325: the fee-waiver lines, or an empty line.
WaiverBlock(u) ==
    IF u.feeWaiverRequested
    THEN << <<"FEE WAIVER REQUEST:">>,
            <<"I am requesting a waiver of all fees associated with this request.">>,
            <<"Justification: ",
              Or(u.feeWaiverReason,
                 "Information will contribute significantly to public understanding.")>> >>
    ELSE << <<"">> >>

\* The emailBody template.
emailBody(rephrasedRequest, u) ==
    << <<"Dear FOIA Officer,">>,
       <<"Pursuant to the Freedom of Information Act, 5 U.S.C. 552, I am requesting access to the following records:">>,
       <<rephrasedRequest>>,
       <<"REQUESTER INFORMATION:">>,
       <<"Email: ", u.email>>,
       <<"FEE CATEGORY:">>,
       <<"FEE LIMITATION:">> >>
    \o WaiverBlock(u)
    \o << <<"PREFERRED RESPONSE FORMAT:">>,
          <<"Sincerely,">>,
          <<u.email>> >>

\* The emailBody of the client's SubmitStep: the same template.
draftEmailBody(rephrasedRequest, u) == emailBody(rephrasedRequest, u)

\* error instanceof Error ? error.message : fallback
ErrorText(err, fallback) == IF err.isError THEN err.message ELSE fallback

NoResponse == [status |-> 0, success |-> "none", message |-> <<>>, emailSentTo |-> "", error |-> ""]

\* { error: "Missing required fields" }, status 400: the body has neither
\* success nor message.
MissingFields ==
    [status |-> 400, success |-> "undefined",
     message |-> <<>>, emailSentTo |-> "", error |-> "Missing required fields"]

NoEmailFound(agency) ==
    [status |-> 200, success |-> "false",
     message |-> <<"No email address found for ", agency.name,
                   ". Please submit your request manually at foia.gov.">>,
     emailSentTo |-> "", error |-> ""]

ServiceNotConfigured ==
    [status |-> 200, success |-> "false",
     message |-> <<"Email service not configured. Please contact the administrator.">>,
     emailSentTo |-> "", error |-> ""]

SenderNotConfigured ==
    [status |-> 200, success |-> "false",
     message |-> <<"Sender email not configured. Please contact the administrator.">>,
     emailSentTo |-> "", error |-> ""]

Emailed(agency, u, agencyEmail) ==
    [status |-> 200, success |-> "true",
     message |-> <<"Your FOIA request has been emailed to ", agency.name,
                   "! They will respond to ", u.email, ".">>,
     emailSentTo |-> agencyEmail, error |-> ""]

\* The catch around the send.
SendFailed(err) ==
    [status |-> 200, success |-> "false",
     message |-> <<"Failed to send email: ", ErrorText(err, "Unknown email error"),
                   ". Please try again or submit manually at foia.gov.">>,
     emailSentTo |-> "", error |-> ""]

\* The catch around the whole handler.
SubmissionFailed(err) ==
    [status |-> 200, success |-> "false",
     message |-> <<"Submission failed: ", ErrorText(err, "Unknown error"),
                   ". Please try submitting manually at foia.gov.">>,
     emailSentTo |-> "", error |-> ""]

\* A handler whose outer try has no catch: the exception leaves POST.
catchSubmitRethrow(err) == [escaped |-> TRUE, response |-> NoResponse]

\* catch (error) of the outer try: the exception ends in a response.
catchSubmit(err) == [escaped |-> FALSE, response |-> SubmissionFailed(err)]

\* catch (sendError) of the inner try.
catchSend(err) == [escaped |-> FALSE, response |-> SendFailed(err)]

\* No send has been started.
NoSend == [to |-> "", state |-> "none"]

\* The one element of Messages.
Message(agencyEmail, u, text) == [to |-> <<agencyEmail>>, replyTo |-> u.email, text |-> text]

InitSubmit ==
    /\ subDir \in SubmitDirectories
    /\ subEnv \in SubmitEnvs
    /\ subBody \in SubmitBodies
    /\ subPc = "start"
    /\ subMail = NoSend
    /\ outbox = <<>>
    /\ subResponse = NoResponse
    /\ subEscaped = FALSE
    /\ draft = <<>>
    /\ IdleResolve
    /\ IdleMerge
    /\ IdleAcquisition
    /\ IdlePortal
    /\ IdleTask
    /\ IdleRun
    /\ IdleWizard

\* POST, from the parse of the body to its first response or to the await of
\* the Mailjet request.
SubmitPost ==
    /\ subPc = "start"
    /\ LET b == subBody
           res == findAgencyEmail(subDir, b.agency.id, b.agency.name)
           Answer(r) == /\ subResponse' = r
                        /\ subPc' = "responded"
                        /\ UNCHANGED <<subMail, outbox, subEscaped>>
           Throw(err) == /\ subResponse' = catchSubmit(err).response
                         /\ subEscaped' = catchSubmit(err).escaped
                         /\ subPc' = "responded"
                         /\ UNCHANGED <<subMail, outbox>>
       IN  IF ~b.parsed THEN Throw(JsonError)
           ELSE IF Falsy(b.rephrasedRequest) \/ ~b.agency.present \/ ~b.userDetails.present
           THEN Answer(MissingFields)
           ELSE IF res.kind = "throw" THEN Throw(NameTypeError)
           ELSE IF res.value = Null THEN Answer(NoEmailFound(b.agency))
           ELSE IF ~getMailjetClient(subEnv) THEN Answer(ServiceNotConfigured)
           ELSE IF Falsy(subEnv.fromEmail) THEN Answer(SenderNotConfigured)
           ELSE IF ~b.userDetails.hasAddress THEN Throw(AddressTypeError)
           ELSE LET m == Message(res.value, b.userDetails,
                                 emailBody(b.rephrasedRequest, b.userDetails))
                IN  /\ subMail' = [to |-> res.value, state |-> "pending"]
                    /\ outbox' = Append(outbox, m)
                    /\ subPc' = "sending"
                    /\ UNCHANGED <<subResponse, subEscaped>>
    /\ UNCHANGED <<subDir, subEnv, subBody, draft>>
    /\ UNCHANGED notSubmitVars

\* The Mailjet request settles: the success response, or the catch of the
\* send.
MailSettles(outcome) ==
    /\ subPc = "sending"
    /\ subResponse' =
          IF outcome.ok
          THEN Emailed(subBody.agency, subBody.userDetails, subMail.to)
          ELSE catchSend(outcome).response
    /\ subEscaped' = IF outcome.ok THEN subEscaped ELSE catchSend(outcome).escaped
    /\ subMail' = [subMail EXCEPT !.state = IF outcome.ok THEN "fulfilled" ELSE "rejected"]
    /\ subPc' = "responded"
    /\ UNCHANGED <<subDir, subEnv, subBody, outbox, draft>>
    /\ UNCHANGED notSubmitVars

\* The client's SubmitStep renders for the request and composes its draft.
\* The render first calls its own findAgencyEmail(agency.id, agency.name) on
\* the same directory file: when that throws, the render throws before the
\* template is evaluated and no draft is composed.
ComposeDraft ==
    /\ draft = <<>>
    /\ subBody.parsed
    /\ subBody.agency.present
    /\ subBody.userDetails.present
    /\ subBody.userDetails.hasAddress
    /\ findAgencyEmail(subDir, subBody.agency.id, subBody.agency.name).kind # "throw"
    /\ draft' = draftEmailBody(subBody.rephrasedRequest, subBody.userDetails)
    /\ UNCHANGED <<subDir, subEnv, subBody, subPc, subMail, outbox, subResponse, subEscaped>>
    /\ UNCHANGED notSubmitVars

NextSubmit ==
    \/ SubmitPost
    \/ \E outcome \in MailOutcomes : MailSettles(outcome)
    \/ ComposeDraft

SpecSubmit == InitSubmit /\ [][NextSubmit]_vars

----------------------------------------------------------------------------
(* Claims on the submit route (under SpecSubmit).                          *)

Responded == subPc = "responded"

\* The instruction to submit by hand, as the last part of a message.
ManualFallback ==
    { ". Please try again or submit manually at foia.gov.",
      ". Please try submitting manually at foia.gov." }

\* The required fields of the body are there.
RequiredPresent ==
    /\ subBody.parsed
    /\ ~Falsy(subBody.rephrasedRequest)
    /\ subBody.agency.present
    /\ subBody.userDetails.present

\* The conditions under which POST goes on to build and send the mail.
MayMail ==
    /\ RequiredPresent
    /\ Channel(findAgencyEmail(subDir, subBody.agency.id, subBody.agency.name)) = "EMAIL"
    /\ subEnv.apiKey
    /\ subEnv.secretKey
    /\ subEnv.fromEmail # ""

\* The request met an exception: the body did not parse, the resolver threw
\* on a missing name, the details had no address to read, or the send was
\* rejected.
MetException ==
    \/ ~subBody.parsed
    \/ /\ RequiredPresent
       /\ findAgencyEmail(subDir, subBody.agency.id, subBody.agency.name).kind = "throw"
    \/ MayMail /\ ~subBody.userDetails.hasAddress
    \/ subMail.state = "rejected"

\* C21: when the send is rejected or any other exception is met, no exception
\* leaves the handler and the response is an ordinary one with success
\* false, whose message holds the text of the failure followed by the
\* instruction to submit manually at foia.gov.
C21_FailureIsStructuredResponse ==
    /\ ~subEscaped
    /\ (Responded /\ MetException) =>
          /\ subResponse.status = 200
          /\ subResponse.success = "false"
          /\ Len(subResponse.message) = 3
          /\ subResponse.message[2] # ""
          /\ subResponse.message[3] \in ManualFallback

\* The send was rejected with an Error and the response carries its text.
C21_Witness ==
    /\ Responded
    /\ Len(outbox) = 1
    /\ subMail.state = "rejected"
    /\ subResponse.success = "false"
    /\ subResponse.message =
          <<"Failed to send email: ", "Unsuccessful: 401 Unauthorized",
            ". Please try again or submit manually at foia.gov.">>
    /\ ~subEscaped

\* The parts of a text.
Parts(text) == { text[i] : i \in 1..Len(text) }

HasWaiverBlock(text) ==
    /\ <<"FEE WAIVER REQUEST:">> \in Parts(text)
    /\ \E p \in Parts(text) : Len(p) = 2 /\ p[1] = "Justification: "

HasNoWaiverLine(text) ==
    /\ <<"FEE WAIVER REQUEST:">> \notin Parts(text)
    /\ \A p \in Parts(text) : p[1] # "Justification: "

\* What C25 asks of a body built from the details u.
WaiverAsRequested(text, u) ==
    /\ u.feeWaiverRequested => HasWaiverBlock(text)
    /\ ~u.feeWaiverRequested => HasNoWaiverLine(text)
    /\ (u.feeWaiverRequested /\ Falsy(u.feeWaiverReason)) =>
          <<"Justification: ",
            "Information will contribute significantly to public understanding.">>
             \in Parts(text)
    /\ (u.feeWaiverRequested /\ ~Falsy(u.feeWaiverReason)) =>
          <<"Justification: ", u.feeWaiverReason>> \in Parts(text)

\* C25: the body of the mail, on the route and in the client's draft, holds
\* the fee-waiver block exactly when feeWaiverRequested is true; with an
\* empty reason the justification is the default sentence; with
\* feeWaiverRequested false there is no waiver heading and no justification.
C25_WaiverBlockIffRequested ==
    /\ \A i \in 1..Len(outbox) : WaiverAsRequested(outbox[i].text, subBody.userDetails)
    /\ draft # <<>> => WaiverAsRequested(draft, subBody.userDetails)

\* A mail went out with the default justification, for a waiver requested
\* without a reason, and the client's draft is composed.
C25_Witness ==
    /\ Len(outbox) = 1
    /\ draft # <<>>
    /\ subBody.userDetails.feeWaiverRequested
    /\ subBody.userDetails.feeWaiverReason = ""
    /\ HasWaiverBlock(outbox[1].text)
    /\ HasWaiverBlock(draft)

\* C27: a request hands at most one message to Mailjet, to the one address
\* the resolver returned, and only when the required fields are present, an
\* address is resolved, and the keys and the sender are configured; otherwise
\* it hands over none.  A response that reports success names that address.
C27_AtMostOneMailToResolvedAddress ==
    /\ Len(outbox) <= 1
    /\ outbox # <<>> =>
          /\ MayMail
          /\ outbox[1].to =
                <<findAgencyEmail(subDir, subBody.agency.id, subBody.agency.name).value>>
    /\ ~MayMail => outbox = <<>>
    /\ (Responded /\ subResponse.success = "true") =>
          /\ Len(outbox) = 1
          /\ <<subResponse.emailSentTo>> = outbox[1].to

\* The request was mailed to the address of the unit and answered with
\* success.
C27_Witness ==
    /\ Responded
    /\ subResponse.success = "true"
    /\ Len(outbox) = 1
    /\ outbox[1].to = <<"foia@doe.gov">>
    /\ subResponse.emailSentTo = "foia@doe.gov"

----------------------------------------------------------------------------
(* Fill-portal route: POST /api/fill-portal.  The route opens a visible    *)
(* browser on the unit's portal page and fills the form through safeFill   *)
(* and safeSelect; the page decides which selectors exist.                 *)

\* FBI component ID
FBI_ID == "e366935f-20e1-4404-ac40-ed5518a5ce5a"

\* The bodies of the request: FillPortalRequest, with the strings the
\* validation tests possibly empty and the fields it does not test
\* possibly missing from the JSON (address, state, maxFee and feeCategory
\* among them); maxFee is a number, held in a tuple that is empty when the
\* body has none.
FillBodies ==
    [ agencyId : {"", FBI_ID, "a1"},
      firstName : {"", "Ann"},
      lastName : {"Lee"},
      email : {"ann@example.org"},
      phone : {Missing, "555-0100"},
      addressLine1 : {Missing, "1 Main St"},
      addressLine2 : {Missing, "Apt 2"},
      city : {Missing, "Albany"},
      state : {Missing, "ny", "ZZ"},
      zip : {"12207"},
      requestDescription : {"", "All records on contract 17."},
      feeWaiverRequested : BOOLEAN,
      feeWaiverReason : {Missing, "Research for a public report."},
      maxFee : {<<>>, <<25>>},
      feeCategory : {Missing, "news_media", "press"} ]

\* How many waitForTimeout calls of the fill sequence the model can break.
MaxWaits == 2

\* The browser and the page: the launch or the navigation may throw; the
\* page may hold the whole form, no form, or the form without the revealed
\* description field; the user may close the window during the k-th wait of
\* the fill sequence (0: not at all); one element of the page may refuse
\* its value, page.fill or page.selectOption throwing on it ("": none).
FillSites ==
    [ launch : {"ok"}, goto : {"ok"}, form : {"full", "none", "partial"},
      closedAtWait : 0..MaxWaits,
      refuses : {"", "#root_processing_fees_request_category"} ]
    \cup { [launch |-> "throws", goto |-> "ok", form |-> "none", closedAtWait |-> 0,
            refuses |-> ""],
           [launch |-> "ok", goto |-> "throws", form |-> "none", closedAtWait |-> 0,
            refuses |-> ""] }

LaunchError == [isError |-> TRUE, message |-> "browserType.launch: Executable doesn't exist"]
GotoError == [isError |-> TRUE, message |-> "page.goto: Timeout 30000ms exceeded."]

\* feeCategoryMap[feeCategory]
feeCategoryMap(c) ==
    CASE c = "commercial" -> "3"
      [] c = "educational" -> "1"
      [] c = "news_media" -> "0"
      [] c = "other" -> "4"
      [] OTHER -> Missing

\* state.toUpperCase(), on the states of the model.
StateUpper(st) == CASE st = "ny" -> "NY" [] OTHER -> st

\* stateMap[...], on the states of the model.
stateMap(st) == CASE st = "NY" -> "32" [] st = "TX" -> "43" [] OTHER -> Missing

\* const isFBI = agencyId === FBI_ID
isFBI(agencyId) == agencyId = FBI_ID

\* The calls of the fill sequence; a value is the tuple of its pieces.
Fill(selector, value) == [kind |-> "fill", selector |-> selector, value |-> <<value>>]
FillPieces(selector, pieces) == [kind |-> "fill", selector |-> selector, value |-> pieces]
Select(selector, value) == [kind |-> "select", selector |-> selector, value |-> <<value>>]
Wait == [kind |-> "wait", selector |-> "", value |-> <<>>]

\* A statement whose evaluation throws a TypeError: a method called on
\* undefined.
Raise == [kind |-> "throw", selector |-> "", value |-> <<>>]

DecimalDigit(d) ==
    CASE d = 0 -> "0" [] d = 1 -> "1" [] d = 2 -> "2" [] d = 3 -> "3" [] d = 4 -> "4"
      [] d = 5 -> "5" [] d = 6 -> "6" [] d = 7 -> "7" [] d = 8 -> "8" [] d = 9 -> "9"

\* Number.prototype.toString() on a natural number.
RECURSIVE NumberToString(_)
NumberToString(n) ==
    IF n < 10 THEN DecimalDigit(n)
    ELSE NumberToString(n \div 10) \o DecimalDigit(n % 10)

\* The date the signature is dated with.
dateStr == "10/29/2026"

\* A call made only when its condition holds.
When(cond, calls) == IF cond THEN calls ELSE <<>>

\* STEP 1 of the fill sequence.
ContactCalls(b) ==
    << Fill("#root_requester_contact_name_first", b.firstName),
       Fill("#root_requester_contact_name_last", b.lastName),
       Fill("#root_requester_contact_email", b.email) >>
    \o When(~Falsy(b.phone), << Fill("#root_requester_contact_phone_number", b.phone) >>)
    \o << Fill("#root_requester_contact_address_line1", b.addressLine1) >>
    \o When(~Falsy(b.addressLine2),
            << Fill("#root_requester_contact_address_line2", b.addressLine2) >>)
    \o << Fill("#root_requester_contact_address_city", b.city),
          Fill("#root_requester_contact_address_zip_postal_code", b.zip),
          Fill("#root_requester_contact_address_state_province", b.state),
          Select("#root_requester_contact_address_country", "246") >>

\* STEP 2, the branch of the extended form.
FbiCalls(b) ==
    << Select("#root_supporting_docs_fbi_address_type", "0"),
       Wait >>
    \o (IF b.state = Missing
        THEN << Raise >>
        ELSE << Select("#root_supporting_docs_fbi_state_domestic",
                       Or(stateMap(StateUpper(b.state)), "0")) >>)
    \o << Wait,
       Select("#root_supporting_docs_fbi_request_subject", "2"),
       Wait,
       Select("#root_supporting_docs_fbi_requester_type", "0"),
       Wait,
       Fill("#root_supporting_docs_fbi_request_description", b.requestDescription),
       Select("#root_supporting_docs_fbi_citizen_confirm", "0"),
       Wait,
       FillPieces("#root_supporting_docs_fbi_citizen_signature", <<b.firstName, " ", b.lastName>>),
       Fill("#root_supporting_docs_fbi_citizen_today", dateStr) >>

\* STEP 2, the branch of the standard form.
StandardCalls(b) ==
    << Fill("#root_request_description_request_description", b.requestDescription) >>

\* STEP 3: fee and processing options.
FeeCalls(b) ==
    << Select("#root_processing_fees_request_category", Or(feeCategoryMap(b.feeCategory), "4")) >>
    \o (IF b.feeWaiverRequested
        THEN << Select("#root_processing_fees_fee_waiver", "1"), Wait >>
             \o When(~Falsy(b.feeWaiverReason),
                     << Fill("#root_processing_fees_fee_waiver_explanation", b.feeWaiverReason) >>)
        ELSE << Select("#root_processing_fees_fee_waiver", "0") >>)
    \o (IF b.maxFee = <<>>
        THEN << Raise >>
        ELSE << Fill("#root_processing_fees_fee_amount_willing",
                     NumberToString(b.maxFee[1])) >>)
    \o << Select("#root_expedited_processing_expedited_processing", "0") >>

\* The statements of the inner try, in order.
FillScript(b) ==
    ContactCalls(b)
    \o (IF isFBI(b.agencyId) THEN FbiCalls(b) ELSE StandardCalls(b))
    \o FeeCalls(b)

\* The number of waits among the first n statements.
RECURSIVE WaitsIn(_, _)
WaitsIn(script, n) ==
    IF n = 0 THEN 0
    ELSE WaitsIn(script, n - 1) + (IF script[n].kind = "wait" THEN 1 ELSE 0)

\* The statements that run: those before the first statement that throws
\* to the catch of fillError, which is a TypeError of the sequence itself
\* or the wait in which the window was closed (waitForTimeout throws); all
\* of them when none throws.
Executed(script, closedAtWait) ==
    LET stops == { n \in 1..Len(script) :
                      \/ script[n].kind = "throw"
                      \/ /\ closedAtWait # 0
                         /\ script[n].kind = "wait"
                         /\ WaitsIn(script, n) = closedAtWait }
    IN  IF stops = {}
        THEN script
        ELSE SubSeq(script, 1, (CHOOSE n \in stops : \A m \in stops : n <= m) - 1)

\* page.$(selector): the element exists on the page.
Exists(form, selector) ==
    CASE form = "full" -> TRUE
      [] form = "none" -> FALSE
      [] OTHER -> selector \notin { "#root_supporting_docs_fbi_request_description",
                                    "#root_request_description_request_description" }

IsCall(c) == c.kind \in {"fill", "select"}

\* page.fill and page.selectOption on an element that exists: they throw
\* when the element refuses the value or when the value is undefined.
Throws(site, c) == c.selector = site.refuses \/ c.value = << Missing >>

\* safeFill and safeSelect return true, the value put in: the element
\* exists and the call on it did not throw; the exception of a call that
\* threw is caught and logged, and false is returned.
Succeeds(site, c) == Exists(site.form, c.selector) /\ ~Throws(site, c)

NoFillResponse == [status |-> 0, success |-> "none", message |-> "", error |-> ""]

FillMissingFields ==
    [status |-> 400, success |-> "undefined", message |-> "",
     error |-> "Missing required fields"]

FormPrefilled ==
    [status |-> 200, success |-> "true",
     message |-> "Browser opened and form pre-filled. Complete the CAPTCHA and click Submit.",
     error |-> ""]

PortalFailed(err) ==
    [status |-> 500, success |-> "false", message |-> "",
     error |-> ErrorText(err, "Failed to open portal")]

InitPortal ==
    /\ fillBody \in FillBodies
    /\ fillSite \in FillSites
    /\ fillPc = "start"
    /\ fillCalls = <<>>
    /\ filled = <<>>
    /\ fillResponse = NoFillResponse
    /\ IdleResolve
    /\ IdleMerge
    /\ IdleAcquisition
    /\ IdleSubmit
    /\ IdleTask
    /\ IdleRun
    /\ IdleWizard

\* POST, from the body to the loaded page: the validation, the launch of
\* the browser and the navigation.
OpenPortal ==
    /\ fillPc = "start"
    /\ LET b == fillBody
       IN  IF \/ Falsy(b.agencyId) \/ Falsy(b.firstName) \/ Falsy(b.lastName)
              \/ Falsy(b.email) \/ Falsy(b.requestDescription)
           THEN fillResponse' = FillMissingFields /\ fillPc' = "responded"
           ELSE IF fillSite.launch = "throws"
           THEN fillResponse' = PortalFailed(LaunchError) /\ fillPc' = "responded"
           ELSE IF fillSite.goto = "throws"
           THEN fillResponse' = PortalFailed(GotoError) /\ fillPc' = "responded"
           ELSE fillPc' = "form" /\ UNCHANGED fillResponse
    /\ UNCHANGED <<fillBody, fillSite, fillCalls, filled>>
    /\ UNCHANGED notPortalVars

\* POST, the inner try and the response after it: the fill sequence runs,
\* its exception if any is logged, and the route answers.
FillForm ==
    /\ fillPc = "form"
    /\ LET run == Executed(FillScript(fillBody), fillSite.closedAtWait)
           calls == SelectSeq(run, IsCall)
           Took(c) == Succeeds(fillSite, c)
       IN  /\ fillCalls' = calls
           /\ filled' = SelectSeq(calls, Took)
    /\ fillResponse' = FormPrefilled
    /\ fillPc' = "responded"
    /\ UNCHANGED <<fillBody, fillSite>>
    /\ UNCHANGED notPortalVars

NextPortal == OpenPortal \/ FillForm

SpecPortal == InitPortal /\ [][NextPortal]_vars

----------------------------------------------------------------------------
(* Claims on the fill-portal route (under SpecPortal).                     *)

\* The route answered a request that passed the validation.
PortalAnswered == fillPc = "responded" /\ fillResponse.status # 400

\* The calls the route makes for the body when nothing interrupts it.
IntendedCalls == SelectSeq(FillScript(fillBody), IsCall)

\* The form was reached and some field the route meant to fill took no value.
FormNotFilled ==
    /\ fillSite.launch = "ok"
    /\ fillSite.goto = "ok"
    /\ filled # IntendedCalls

\* The automation failed: the launch or the navigation threw, or the form
\* was not filled.
AutomationFailed ==
    \/ fillSite.launch = "throws"
    \/ fillSite.goto = "throws"
    \/ FormNotFilled

\* C22 (as claimed, without the wording of the message): when the launch or
\* the navigation throws, or filling the fields fails, the route reports a
\* failure (success false) with a text; it never reports success for a form
\* it could not fill.
C22_AutomationFailureReported ==
    (PortalAnswered /\ AutomationFailed) =>
        /\ fillResponse.success = "false"
        /\ (fillResponse.message # "" \/ fillResponse.error # "")

Selectors(calls) == { calls[i].selector : i \in 1..Len(calls) }

\* The fields of the extended form.
ExtendedFields ==
    { "#root_supporting_docs_fbi_address_type",
      "#root_supporting_docs_fbi_state_domestic",
      "#root_supporting_docs_fbi_request_subject",
      "#root_supporting_docs_fbi_requester_type",
      "#root_supporting_docs_fbi_request_description",
      "#root_supporting_docs_fbi_citizen_confirm",
      "#root_supporting_docs_fbi_citizen_signature",
      "#root_supporting_docs_fbi_citizen_today" }

StandardDescription == "#root_request_description_request_description"

\* Identity, address, fee category, fee ceiling and waiver.
SharedFields ==
    { "#root_requester_contact_name_first",
      "#root_requester_contact_name_last",
      "#root_requester_contact_email",
      "#root_requester_contact_address_line1",
      "#root_requester_contact_address_city",
      "#root_requester_contact_address_zip_postal_code",
      "#root_requester_contact_address_state_province",
      "#root_requester_contact_address_country",
      "#root_processing_fees_request_category",
      "#root_processing_fees_fee_waiver",
      "#root_processing_fees_fee_amount_willing" }

\* The route went through the fill sequence and answered.
FormAnswered == fillPc = "responded" /\ fillResponse.status = 200

\* The page holds every element of the form, none refuses its value, and
\* the window stays open through the sequence.
PageCooperates ==
    /\ fillSite.form = "full"
    /\ fillSite.refuses = ""
    /\ fillSite.closedAtWait = 0

\* C24 (as claimed, on the fields that took a value, and only for a page
\* that cooperates, so that a field left empty is left empty by the route
\* itself): the extended fields are all filled when the unit id is the one
\* extended-form id and none of them is filled otherwise; the standard
\* request-description field is filled exactly when the unit is not that
\* unit; the identity, address, fee-category, fee-ceiling and waiver fields
\* are filled on both branches.
C24_FieldSetByUnit ==
    (FormAnswered /\ PageCooperates) =>
        /\ fillBody.agencyId = FBI_ID => ExtendedFields \subseteq Selectors(filled)
        /\ fillBody.agencyId # FBI_ID => ExtendedFields \cap Selectors(filled) = {}
        /\ (StandardDescription \in Selectors(filled)) <=> (fillBody.agencyId # FBI_ID)
        /\ SharedFields \subseteq Selectors(filled)

----------------------------------------------------------------------------
(* The cache timestamp under overlapping refreshes (under SpecCache).      *)

\* C31 (as claimed): the cache timestamp never falls back: once a request
\* has completed its refresh, the timestamp is at least the time that
\* request started, and the cached set is not that of a refresh that
\* started earlier than a completed one.
C31_TimestampNeverDecreases ==
    \A r \in RequestIds :
        Refreshed(r) =>
            /\ cacheTime >= reqs[r].now
            /\ reqs[cachedAgencies.owner].now >= reqs[r].now

----------------------------------------------------------------------------
(* Worker pages of a parallel run (under SpecScrape).                      *)

\* C32: the calls in flight work on pairwise different pages; the call at
\* position idx of its batch works on page idx, and idx is below the number
\* of pages created, in the last, shorter batch too.
C32_OnePagePerTaskInFlight ==
    /\ DOMAIN tabs = running
    /\ \A p, q \in running : p # q => tabs[p] # tabs[q]
    /\ \A p \in running :
          /\ tabs[p] = p - batchStart - 1
          /\ tabs[p] >= 0
          /\ tabs[p] < PARALLEL_TABS

\* The last batch, shorter than the number of pages, is in flight with more
\* than one call, on the first pages.
C32_Witness ==
    /\ scraper = "parallel"
    /\ scrapePc = "await"
    /\ batchStart = PARALLEL_TABS
    /\ Len(componentIds) - batchStart < PARALLEL_TABS
    /\ Cardinality(running) >= 2
    /\ \E p, q \in running : tabs[p] = 0 /\ tabs[q] = 1

----------------------------------------------------------------------------
(* A run that enumerated no unit id (under SpecScrape).                    *)

\* C36 (as claimed): when the enumeration gave no unit id, the run that has
\* ended, of either scraper, left the directory file as it was before the
\* run.
C36_NoIdsLeavesFileUnchanged ==
    (Len(componentIds) = 0 /\ scrapePc \in {"saved", "skipped"}) =>
        dirFile = PreRunFile

----------------------------------------------------------------------------
(* The reconciliation run on its own output (under SpecMerge).             *)

\* C38: the reconciliation run on the directory it wrote, with the same
\* registry data, writes that directory again, record for record.
C38_ReconcileFixedPoint ==
    (Merged /\ remerged.ran) => remerged.out = merged

\* The run on the merged file is done, the first run changed the scraped
\* file, and the file has two different records of which the registry knows
\* one, so that both branches of the loop pushed in both runs.
C38_Witness ==
    /\ Merged
    /\ remerged.ran
    /\ merged # scraped
    /\ Len(merged) = 2
    /\ merged[1] # merged[2]
    /\ HasRegistryRecord(merged[1].componentId)
    /\ ~HasRegistryRecord(merged[2].componentId)
    /\ remerged.out = merged

----------------------------------------------------------------------------
(* The page ceiling of a refresh (under SpecCache).                        *)

\* Every page request r has got was a full page.
AllFullPages(r) ==
    /\ reqs[r].upstream = Len(reqs[r].allComponents)
    /\ \A k \in 1..Len(reqs[r].allComponents) : reqs[r].allComponents[k].n = pageSize

\* C34: a refresh issues at most 21 page requests; a refresh that got a full
\* page at each of 21 offsets has ended, and the cache holds the 21 pages it
\* fetched until another refresh stores its own.
C34_RefreshStopsAtCeiling ==
    \A r \in RequestIds :
        /\ reqs[r].upstream <= SafetyLimit + 1
        /\ (AllFullPages(r) /\ reqs[r].upstream = SafetyLimit + 1) =>
              /\ reqs[r].pc = "served"
              /\ reqs[r].status = 200
              /\ cachedAgencies.set
              /\ cachedAgencies.owner = r =>
                    /\ cachedAgencies.components = reqs[r].allComponents
                    /\ Len(cachedAgencies.components) = SafetyLimit + 1
                    /\ cacheTime = reqs[r].now

\* A refresh got full pages at offsets 0 to 1000, ended there, and the cache
\* holds its 21 pages.
C34_Witness ==
    /\ AllFullPages(1)
    /\ reqs[1].upstream = SafetyLimit + 1
    /\ reqs[1].pc = "served"
    /\ cachedAgencies.owner = 1
    /\ Len(cachedAgencies.components) = SafetyLimit + 1
    /\ cachedAgencies.components[SafetyLimit + 1].offset = SafetyLimit * pageSize

----------------------------------------------------------------------------
(* The page requests of the script fetchers (under SpecFetch).             *)

ScriptFetchers == {"fetchComponentIds", "fetchAgencyData", "fetchAllAgencies"}

\* C35 (as claimed): a script fetcher issues a bounded number of page
\* requests whatever the registry answers: no more than the 21 the list
\* route stops at, and after them its loop has ended.
C35_ScriptFetcherBounded ==
    fetcher \in ScriptFetchers =>
        /\ Len(requests) <= SafetyLimit + 1
        /\ Len(requests) = SafetyLimit + 1 => fetchPc \in {"returned", "threw"}

----------------------------------------------------------------------------
(* The scrape of one unit page: scrapeAgencyPage of the parallel scraper    *)
(* and one iteration of the loop of scrapeAgencyEmails.  Each await is a   *)
(* step; a page operation either completes or throws.                      *)

\* The sequential scraper takes a screenshot for the units below this index.
ScreenshotCount == 3

\* The loop indexes told apart: the first unit, the last with a screenshot,
\* the first without.
TaskIndexes == {0, ScreenshotCount - 1, ScreenshotCount}

OpOutcomes == {"ok", "throws"}

\* How the page of the unit behaves: each operation completes or throws, and
\* page.$ finds the tab, finds nothing (null) or throws.
TaskSites ==
    [ i        : TaskIndexes,
      goto     : OpOutcomes,
      wait     : OpOutcomes,
      tab      : {"present", "absent", "throws"},
      click    : OpOutcomes,
      settle   : OpOutcomes,
      shot     : OpOutcomes,
      evaluate : OpOutcomes,
      rate     : OpOutcomes ]

\* The operation after the inner try: the screenshot for the first units of
\* the sequential scraper, else page.evaluate.
AfterTab ==
    IF taskScraper = "sequential" /\ taskSite.i < ScreenshotCount
    THEN "screenshot"
    ELSE "evaluate"

\* An inner try with no catch: the exception goes to the outer catch.
CatchTabRethrow(next) == "catch"

\* catch {} of the inner try: the exception is dropped and the code after
\* the inner try runs.
CatchTab(next) == next

\* What the outer catch makes of the unit: the parallel scraper returns a
\* placeholder record, the sequential scraper logs and pushes nothing.
Caught ==
    IF taskScraper = "parallel"
    THEN [kind |-> "placeholder"]
    ELSE [kind |-> "skipped"]

\* No outcome yet.
NoResult == [kind |-> "none"]

\* One page operation: it is recorded with its outcome, and the code moves
\* to next, or through the outer catch to the end of the task.
TaskStep(op, outcome, next) ==
    /\ taskTrace' = Append(taskTrace, [op |-> op, ok |-> outcome = "ok"])
    /\ IF next = "catch"
       THEN /\ taskPc' = "done"
            /\ taskResult' = Caught
       ELSE /\ taskPc' = next
            /\ UNCHANGED taskResult
    /\ UNCHANGED <<taskScraper, taskSite>>
    /\ UNCHANGED notTaskVars

InitTask ==
    /\ taskScraper \in Scrapers
    /\ taskSite \in TaskSites
    /\ taskScraper = "parallel" => taskSite.i = 0 /\ taskSite.shot = "ok" /\ taskSite.rate = "ok"
    /\ taskPc = "goto"
    /\ taskTrace = <<>>
    /\ taskResult = NoResult
    /\ IdleResolve
    /\ IdleMerge
    /\ IdleAcquisition
    /\ IdleSubmit
    /\ IdlePortal
    /\ IdleRun
    /\ IdleWizard

\* await page.goto(url, ...)
Goto ==
    /\ taskPc = "goto"
    /\ TaskStep("goto", taskSite.goto, IF taskSite.goto = "ok" THEN "wait" ELSE "catch")

\* await page.waitForTimeout(...) after the navigation
WaitAfterGoto ==
    /\ taskPc = "wait"
    /\ TaskStep("wait", taskSite.wait, IF taskSite.wait = "ok" THEN "lookup" ELSE "catch")

\* await page.$('text="Agency information"'), in the inner try
LookupTab ==
    /\ taskPc = "lookup"
    /\ TaskStep("lookup", IF taskSite.tab = "throws" THEN "throws" ELSE "ok",
                CASE taskSite.tab = "present" -> "click"
                  [] taskSite.tab = "absent" -> AfterTab
                  [] OTHER -> CatchTab(AfterTab))

\* await agencyInfoTab.click(), in the inner try
ClickTab ==
    /\ taskPc = "click"
    /\ TaskStep("click", taskSite.click,
                IF taskSite.click = "ok" THEN "settle" ELSE CatchTab(AfterTab))

\* await page.waitForTimeout(...) after the click, in the inner try
SettleWait ==
    /\ taskPc = "settle"
    /\ TaskStep("settle", taskSite.settle,
                IF taskSite.settle = "ok" THEN AfterTab ELSE CatchTab(AfterTab))

\* await page.screenshot(...), sequential scraper, i < 3
Screenshot ==
    /\ taskPc = "screenshot"
    /\ TaskStep("screenshot", taskSite.shot,
                IF taskSite.shot = "ok" THEN "evaluate" ELSE "catch")

\* await page.evaluate(...): the record is returned (parallel scraper) or
\* pushed, before the rate-limiting wait (sequential scraper).
Evaluate ==
    /\ taskPc = "evaluate"
    /\ taskTrace' = Append(taskTrace, [op |-> "evaluate", ok |-> taskSite.evaluate = "ok"])
    /\ IF taskSite.evaluate = "ok"
       THEN /\ taskResult' = [kind |-> "record"]
            /\ taskPc' = IF taskScraper = "sequential" THEN "rate" ELSE "done"
       ELSE /\ taskResult' = Caught
            /\ taskPc' = "done"
    /\ UNCHANGED <<taskScraper, taskSite>>
    /\ UNCHANGED notTaskVars

\* await page.waitForTimeout(200), sequential scraper: the record is pushed
\* already; an exception here is logged by the catch.
RateLimit ==
    /\ taskPc = "rate"
    /\ taskTrace' = Append(taskTrace, [op |-> "rate", ok |-> taskSite.rate = "ok"])
    /\ taskPc' = "done"
    /\ UNCHANGED <<taskScraper, taskSite, taskResult>>
    /\ UNCHANGED notTaskVars

NextTask ==
    \/ Goto
    \/ WaitAfterGoto
    \/ LookupTab
    \/ ClickTab
    \/ SettleWait
    \/ Screenshot
    \/ Evaluate
    \/ RateLimit

SpecTask == InitTask /\ [][NextTask]_vars

----------------------------------------------------------------------------
(* Order of the page operations of a task (under SpecTask).                *)

\* The operation was started, and where in the task.
Ran(op) == \E k \in 1..Len(taskTrace) : taskTrace[k].op = op
At(op) == CHOOSE k \in 1..Len(taskTrace) : taskTrace[k].op = op
Completed(op) == Ran(op) /\ taskTrace[At(op)].ok

\* The tab was not found, or looking for it, clicking it or the wait after
\* the click threw.
TabNotRevealed ==
    \/ taskSite.tab # "present"
    \/ taskSite.click = "throws"
    \/ taskSite.settle = "throws"

\* Nothing outside the inner try throws.
RestSucceeds ==
    /\ taskSite.goto = "ok"
    /\ taskSite.wait = "ok"
    /\ AfterTab = "screenshot" => taskSite.shot = "ok"
    /\ taskSite.evaluate = "ok"

\* C33: page.evaluate is started only after page.goto has completed; with
\* the tab present and clicked, the click and the wait after it have
\* completed, in this order, before page.evaluate is started; with the tab
\* absent or the click failing, the task still goes on to page.evaluate and
\* gives a record: a task that ends in the outer catch never got there from
\* the inner try.
C33_ExtractionAfterNavigationAndReveal ==
    /\ Ran("evaluate") =>
          /\ Completed("goto")
          /\ At("goto") < At("evaluate")
    /\ (Ran("evaluate") /\ taskSite.tab = "present" /\ taskSite.click = "ok"
            /\ taskSite.settle = "ok") =>
          /\ Completed("click")
          /\ Completed("settle")
          /\ At("click") < At("settle")
          /\ At("settle") < At("evaluate")
    /\ (taskPc = "done" /\ TabNotRevealed /\ RestSucceeds) =>
          /\ Completed("evaluate")
          /\ taskResult = [kind |-> "record"]
    /\ (taskPc = "done" /\ taskResult # [kind |-> "record"]) =>
          /\ ~taskTrace[Len(taskTrace)].ok
          /\ taskTrace[Len(taskTrace)].op \in {"goto", "wait", "screenshot", "evaluate"}

\* The tab was found and the click on it threw; the task went on to
\* page.evaluate and gave a record.
C33_Witness ==
    /\ taskPc = "done"
    /\ taskSite.tab = "present"
    /\ Ran("click")
    /\ ~Completed("click")
    /\ ~Ran("settle")
    /\ Completed("evaluate")
    /\ taskResult = [kind |-> "record"]

----------------------------------------------------------------------------
(* The browser of a scrape run: scrapeInParallel and scrapeAgencyEmails     *)
(* from chromium.launch to their return.  Each await is a step; the await  *)
(* named by runFault rejects.                                              *)

MaxRunBatches == 3

\* Where the run meets an exception: nowhere, or at one of its awaits (the
\* batch awaits are told apart by the number of batches still to process).
RunFaults ==
    { [stage |-> st, at |-> 0] : st \in {"none", "launch", "context", "pages", "close"} }
        \cup { [stage |-> "batch", at |-> k] : k \in 1..MaxRunBatches }

\* The code after the loop: the parallel scraper closes its pages, the
\* sequential scraper leaves the try.
AfterLoop == IF runScraper = "parallel" THEN "closePages" ELSE "finally"

\* The loop test with left batches (units) to go.
LoopOrAfter(left) == IF left > 0 THEN "loop" ELSE AfterLoop

\* browser.close() at the end of the try block instead of in a finally: an
\* exception passes it by.
CloseAtEndOfTry(b, threw) == IF threw THEN b ELSE "closed"

\* finally { await browser.close() }
FinallyClose(b, threw) == "closed"

\* One await inside the try: it resolves and the run goes to next, or it
\* rejects and the run goes to the finally block with the exception pending.
TryStep(stage, at, next) ==
    /\ IF runFault = [stage |-> stage, at |-> at]
       THEN /\ runPc' = "finally"
            /\ runThrew' = TRUE
       ELSE /\ runPc' = next
            /\ UNCHANGED runThrew
    /\ UNCHANGED <<runScraper, runFault, browser>>
    /\ UNCHANGED notRunVars

InitRun ==
    /\ runScraper \in Scrapers
    /\ runFault \in RunFaults
    /\ runPc = "launch"
    /\ runLeft \in 0..MaxRunBatches
    /\ browser = "none"
    /\ runThrew = FALSE
    /\ IdleResolve
    /\ IdleMerge
    /\ IdleAcquisition
    /\ IdleSubmit
    /\ IdlePortal
    /\ IdleTask
    /\ IdleWizard

\* scrapeAgencyEmails with no unit id: if (componentIds.length === 0)
\* return [], before chromium.launch.
ReturnsEmpty ==
    /\ runPc = "launch"
    /\ runScraper = "sequential"
    /\ runLeft = 0
    /\ runPc' = "returned"
    /\ UNCHANGED <<runScraper, runFault, runLeft, browser, runThrew>>
    /\ UNCHANGED notRunVars

\* const browser = await chromium.launch(...), before the try.  (The
\* sequential scraper has returned before it when there is no unit;
\* scrapeInParallel launches whatever the length of its list.)
Launch ==
    /\ runPc = "launch"
    /\ ~(runScraper = "sequential" /\ runLeft = 0)
    /\ IF runFault.stage = "launch"
       THEN /\ runPc' = "threw"
            /\ UNCHANGED browser
       ELSE /\ runPc' = "context"
            /\ browser' = "open"
    /\ UNCHANGED <<runScraper, runFault, runLeft, runThrew>>
    /\ UNCHANGED notRunVars

\* await browser.newContext(...)
NewContext ==
    /\ runPc = "context"
    /\ TryStep("context", 0, "pages")
    /\ UNCHANGED runLeft

\* await Promise.all(... context.newPage()), await context.newPage()
NewPages ==
    /\ runPc = "pages"
    /\ TryStep("pages", 0, LoopOrAfter(runLeft))
    /\ UNCHANGED runLeft

\* One iteration of the loop: the await of the batch (of the unit).
ProcessBatch ==
    /\ runPc = "loop"
    /\ TryStep("batch", runLeft, LoopOrAfter(runLeft - 1))
    /\ runLeft' = runLeft - 1

\* await Promise.all(pages.map((p) => p.close())), parallel scraper.
ClosePages ==
    /\ runPc = "closePages"
    /\ TryStep("close", 0, "finally")
    /\ UNCHANGED runLeft

\* The finally block, then the return or the pending exception.
Finally ==
    /\ runPc = "finally"
    /\ browser' = FinallyClose(browser, runThrew)
    /\ runPc' = IF runThrew THEN "threw" ELSE "returned"
    /\ UNCHANGED <<runScraper, runFault, runLeft, runThrew>>
    /\ UNCHANGED notRunVars

NextRun ==
    \/ ReturnsEmpty
    \/ Launch
    \/ NewContext
    \/ NewPages
    \/ ProcessBatch
    \/ ClosePages
    \/ Finally

SpecRun == InitRun /\ [][NextRun]_vars

\* Every await of the run settles: the run takes its next step as long as
\* it has one.
SpecRunFair == SpecRun /\ WF_vars(NextRun)

----------------------------------------------------------------------------
(* The browser is closed (under SpecRunFair).                              *)

\* C37: in both scrapers a browser that was launched is closed in the end,
\* whether the run returns or an exception leaves the try block.
C37_BrowserEventuallyClosed ==
    (browser = "open") ~> (browser = "closed")

\* A run of the parallel scraper whose second batch threw has ended with
\* the exception, its browser closed.
C37_Witness ==
    /\ runScraper = "parallel"
    /\ runFault.stage = "batch"
    /\ runLeft < MaxRunBatches
    /\ runPc = "threw"
    /\ runThrew
    /\ browser = "closed"

----------------------------------------------------------------------------
(* The wizard of the home page: the WizardState of Home, the edited        *)
(* request, the rephrase request in flight and the state kept in           *)
(* localStorage.  Objects are known by a name; null is Null.               *)

WizardQueries == {"ufo files", "epa memos"}

\* What /api/rephrase answers with status 200: an object with the request
\* text, or an object in which the model left the text out.
RephraseData == {"formal request", "request without text"}

\* data.rephrased
Rephrased(data) ==
    IF data = "formal request"
    THEN "Pursuant to 5 U.S.C. 552, I request the following records."
    ELSE Missing

\* How a rephrase request can fail: a non-success status, and a fetch or a
\* body that throws.
RephraseFailures == {"Failed to process your request", "Failed to fetch"}

WizardAgencies == {"FBI", "EPA"}
WizardDetails == {"details of J. Doe"}

\* What ReviewStep may hold when Continue is pressed: no agency or one, and
\* a request text that may be blank.
ReviewAgencies == WizardAgencies \cup {Null}
ReviewRequests == {"Pursuant to 5 U.S.C. 552, I request the following records.",
                   "I request the records, as edited.", "  "}

\* request.trim()
TrimText(text) == IF text = "  " THEN "" ELSE text

INITIAL_STATE ==
    [ step             |-> 1,
      query            |-> "",
      rephraseResponse |-> Null,
      selectedAgency   |-> Null,
      userDetails      |-> Null,
      isLoading        |-> FALSE,
      error            |-> Null ]

\* JSON.stringify({ state, editedRequest }) as read back by JSON.parse: an
\* undefined editedRequest is left out, every other value is kept.
Stored(state, edited) == [state |-> state, editedRequest |-> edited]

\* loadSavedState: the saved state with isLoading and error cleared, and
\* parsed.editedRequest || "".
loadSavedState(item) ==
    [ state         |-> [item.state EXCEPT !.isLoading = FALSE, !.error = Null],
      editedRequest |-> Or(item.editedRequest, "") ]

\* A handleContinue that calls onContinue whatever ReviewStep holds.
CanContinueAlways(request, agency) == TRUE

\* if (localSelectedAgency && editedRequest.trim())
CanContinue(request, agency) ==
    /\ agency # Null
    /\ TrimText(request) # ""

\* Math.max(1, prev.step - 1)
StepBack(step) == IF step - 1 > 1 THEN step - 1 ELSE 1

\* The render of Home with this state throws: ReviewStep starts its text
\* from rephraseResponse.rephrased and, an agency of the directory being
\* preselected, calls editedRequest.trim() on it.  (The directory built into
\* the page has records.)
RenderThrows(state) ==
    /\ state.step = 2
    /\ state.rephraseResponse # Null
    /\ Rephrased(state.rephraseResponse) = Missing

\* The step component rendered, if any: steps 2 and 4 are rendered only
\* with the values they show, and nothing is after a render that threw.
Rendered ==
    CASE ~mounted -> "nothing"
      [] wizard.step = 1 -> "QueryStep"
      [] wizard.step = 2 /\ wizard.rephraseResponse # Null -> "ReviewStep"
      [] wizard.step = 3 -> "DetailsStep"
      [] /\ wizard.step = 4
         /\ wizard.selectedAgency # Null
         /\ wizard.userDetails # Null
         /\ wizard.rephraseResponse # Null -> "SubmitStep"
      [] OTHER -> "nothing"

\* The state and the edited request after a handler, with the save effect
\* that follows the render.  A render that throws unmounts the page: the
\* new state is not committed and the save effect does not run.
WizardBecomes(state, edited) ==
    IF RenderThrows(state)
    THEN /\ mounted' = FALSE
         /\ UNCHANGED <<wizard, editedRequest, saved>>
    ELSE /\ mounted' = TRUE
         /\ wizard' = state
         /\ editedRequest' = edited
         /\ saved' = Stored(state, edited)

InitWizard ==
    /\ wizard = INITIAL_STATE
    /\ editedRequest = ""
    /\ pending = <<>>
    /\ saved = Stored(INITIAL_STATE, "")
    /\ mounted = TRUE
    /\ IdleResolve
    /\ IdleMerge
    /\ IdleAcquisition
    /\ IdleSubmit
    /\ IdlePortal
    /\ IdleTask
    /\ IdleRun

\* handleQuerySubmit up to its await: QueryStep submits a non-blank query
\* while it is not loading.
QuerySubmit(q) ==
    /\ Rendered = "QueryStep"
    /\ ~wizard.isLoading
    /\ WizardBecomes([wizard EXCEPT !.query = q, !.isLoading = TRUE, !.error = Null],
                     editedRequest)
    /\ pending' = Append(pending, q)
    /\ UNCHANGED notWizardVars

\* handleQuerySubmit after its awaits, the response being ok.
RephraseSucceeds(data) ==
    /\ mounted
    /\ pending # <<>>
    /\ WizardBecomes([wizard EXCEPT !.rephraseResponse = data,
                                    !.step = 2,
                                    !.isLoading = FALSE],
                     Rephrased(data))
    /\ pending' = Tail(pending)
    /\ UNCHANGED notWizardVars

\* handleQuerySubmit, catch.
RephraseFails(message) ==
    /\ mounted
    /\ pending # <<>>
    /\ WizardBecomes([wizard EXCEPT !.isLoading = FALSE, !.error = message],
                     editedRequest)
    /\ pending' = Tail(pending)
    /\ UNCHANGED notWizardVars

\* handleContinue of ReviewStep, then handleReviewContinue.
ReviewContinue(request, agency) ==
    /\ Rendered = "ReviewStep"
    /\ CanContinue(request, agency)
    /\ WizardBecomes([wizard EXCEPT !.selectedAgency = agency, !.step = 3], request)
    /\ UNCHANGED pending
    /\ UNCHANGED notWizardVars

\* handleSubmit of DetailsStep with valid details, then handleDetailsSubmit.
DetailsSubmit(details) ==
    /\ Rendered = "DetailsStep"
    /\ WizardBecomes([wizard EXCEPT !.userDetails = details, !.step = 4], editedRequest)
    /\ UNCHANGED pending
    /\ UNCHANGED notWizardVars

\* goBack, from the Back button of the step rendered.
GoBack ==
    /\ Rendered \in {"ReviewStep", "DetailsStep", "SubmitStep"}
    /\ WizardBecomes([wizard EXCEPT !.step = StepBack(wizard.step)], editedRequest)
    /\ UNCHANGED pending
    /\ UNCHANGED notWizardVars

\* handleReset, from Start Over (shown when step > 1) or from SubmitStep.
Reset ==
    /\ mounted
    /\ wizard.step > 1
    /\ WizardBecomes(INITIAL_STATE, "")
    /\ UNCHANGED pending
    /\ UNCHANGED notWizardVars

\* The page is loaded again: the request in flight is gone with the page,
\* and the mount effect sets what loadSavedState returns.
Reload ==
    /\ WizardBecomes(loadSavedState(saved).state, loadSavedState(saved).editedRequest)
    /\ pending' = <<>>
    /\ UNCHANGED notWizardVars

NextWizard ==
    \/ \E q \in WizardQueries : QuerySubmit(q)
    \/ \E data \in RephraseData : RephraseSucceeds(data)
    \/ \E message \in RephraseFailures : RephraseFails(message)
    \/ \E request \in ReviewRequests, agency \in ReviewAgencies : ReviewContinue(request, agency)
    \/ \E details \in WizardDetails : DetailsSubmit(details)
    \/ GoBack
    \/ Reset
    \/ Reload

SpecWizard == InitWizard /\ [][NextWizard]_vars

----------------------------------------------------------------------------
(* The wizard's step and what it needs (under SpecWizard).                 *)

\* C39: after any sequence of wizard operations the step is 1, 2, 3 or 4; at
\* step 2 or later the rephrase response is present, at step 3 or later an
\* agency is selected, and at step 4 the user details are present.
C39_StepHasItsData ==
    /\ wizard.step \in 1..4
    /\ wizard.step >= 2 => wizard.rephraseResponse # Null
    /\ wizard.step >= 3 => wizard.selectedAgency # Null
    /\ wizard.step = 4 => wizard.userDetails # Null

\* The wizard is at step 3 again, back from step 4, with the response, the
\* agency and the details present and the request text edited.
C39_Witness ==
    /\ mounted
    /\ wizard.step = 3
    /\ wizard.userDetails # Null
    /\ wizard.selectedAgency = "EPA"
    /\ wizard.rephraseResponse = "formal request"
    /\ wizard.query = "epa memos"
    /\ editedRequest = "I request the records, as edited."

====
